---- MODULE Spec2Model ----
(***************************************************************************)
(* Model of the game-tag validator (.github/scripts/validate_tags.py), of  *)
(* the format validator (.github/scripts/validate_tsv.py) and of the       *)
(* translation editor (test/editor.py).                                    *)
(*                                                                         *)
(* Seven specifications share the module: Spec is the scan of one record   *)
(* text (_validate_entry_tags from line 126 on), SpecAsm the reading of a  *)
(* file into records (validate_tags), SpecCmp the comparison of the two    *)
(* files' results (main from line 335 on), SpecMain the whole of main,     *)
(* SpecTsv the format validation of a file (validate_tsv), SpecPair both   *)
(* validators run on one file, SpecEd the editor with its thread pool.     *)
(*                                                                         *)
(* A text is a sequence of characters; a character is a one-character      *)
(* string, except CYR, which stands for a code point in U+0400..U+04FF.    *)
(* Offsets are Python's: 0-based, ranges half-open.                        *)
(***************************************************************************)
EXTENDS Naturals, Integers, Sequences, FiniteSets, TLC

VARIABLES text, link_ranges, i, tag_stack, errors, brace_stack, pc

\* validate_tags
VARIABLES lines, line_num, current_entry_lines, entry_line_nums, entry_start_line,
          current_id, errors_by_id, validated, scans, asm_pc

\* main
VARIABLES ru_errors, en_errors, pending_ids, labels, has_ru_only_errors, exit_code, cmp_pc

\* validate_tsv; its locals lines, line_num, current_entry_lines, entry_start_line and
\* current_id are those declared for validate_tags
VARIABLES tsv_errors, is_valid, tsv_pc, tsv_validated

\* editor.py, TranslationEditor: its fields, the widgets and files it works on, the
\* thread pool with the signals waiting for the GUI thread, and history
VARIABLES df, dict_df, eng_file_loaded, rus_file_loaded, current_df_index,
          filtered_indices, model_indices, rus_edited_text, load_all_button, last_id,
          final_file, pool, events, searches, saves, announced

scan_vars == <<text, link_ranges, i, tag_stack, errors, brace_stack, pc>>

asm_vars == <<lines, line_num, current_entry_lines, entry_line_nums, entry_start_line,
              current_id, errors_by_id, validated, scans, asm_pc>>

cmp_vars == <<ru_errors, en_errors, pending_ids, labels, has_ru_only_errors, exit_code, cmp_pc>>

tsv_vars == <<tsv_errors, is_valid, tsv_pc, tsv_validated>>

ed_vars == <<df, dict_df, eng_file_loaded, rus_file_loaded, current_df_index,
            filtered_indices, model_indices, rus_edited_text, load_all_button, last_id,
            final_file, pool, events, searches, saves, announced>>

vars == <<scan_vars, asm_vars, cmp_vars, tsv_vars, ed_vars>>

(***************************************************************************)
(* Error codes, lines 24-30.                                               *)
(***************************************************************************)
ERROR_CODE_RUSSIAN_AFTER_HASH == "01"
ERROR_CODE_CLOSING_TAG_WITHOUT_OPENING == "02"
ERROR_CODE_OPENING_TAG_WITHOUT_CLOSING == "03"
ERROR_CODE_LINK_TAG_INVALID == "04"
ERROR_CODE_UNBALANCED_BRACES == "05"
ERROR_CODE_CLOSING_BRACE_WITHOUT_OPENING == "06"
ERROR_CODE_OPENING_BRACE_WITHOUT_CLOSING == "07"

(***************************************************************************)
(* Character classes of the regular expressions and comparisons.           *)
(***************************************************************************)
CYR == "U+0434"
\* '\u0400' <= c <= '\u04FF'
Cyrillic == {CYR}
\* [0-9A-Fa-f]
HexDigits == {"0", "f", "E"}
\* [A-Za-z]
Letters == {"E", "f", "G"}
\* [A-Za-z0-9]
AlphaNum == Letters \cup {"0"}
\* [A-Z/]
UpperOrSlash == {"E", "G", "/"}
\* what str.strip() removes
Whitespace == {" "}

Alphabet == {"#", "E", "f", "G", "0", CYR, "<", ">", "|", "{", "}", " ", "/"}

\* {3,} in the hex colour pattern
MinHexDigits == 3

(***************************************************************************)
(* Bounds of the checked inputs.                                           *)
(***************************************************************************)
MaxLen == 3
MaxTail == 3
MaxMarkLen == 4
MaxSpanLen == 5
MaxLinkLen == 5
MaxPairLen == 2
MaxBody == 3
MaxBraceLen == 4

SeqsUpTo(S, n) == UNION {[1..k -> S] : k \in 0..n}

\* every text over the whole alphabet
AllTexts == SeqsUpTo(Alphabet, MaxLen)
\* a hex run after '#', at the start of the text or just inside a '<', and a tail
HexTexts ==
    {p \o <<"#">> \o h \o s :
        p \in {<<>>, <<"<">>},
        h \in [1..MinHexDigits -> {"0", "f"}],
        s \in SeqsUpTo({"#", "E", "f", " ", ">"}, MaxTail)}
\* '#', closers, Cyrillic letters and brackets
MarkTexts == SeqsUpTo({"#", "E", CYR, "<", ">"}, MaxMarkLen)
\* named tags around and inside brackets
SpanTexts == SeqsUpTo({"#", "G", "<", ">"}, MaxSpanLen)
\* one bracketed span
LinkTexts ==
    {<<"<">> \o p \o c \o <<">">> :
        p \in {<<>>, <<"/">>}, c \in SeqsUpTo({"|", "f", "E", " "}, MaxLinkLen)}
\* two bracketed spans
PairTexts ==
    {<<"<">> \o c \o <<">", "<">> \o d \o <<">">> :
        c \in SeqsUpTo({"|", "E", "#"}, MaxPairLen),
        d \in SeqsUpTo({"|", "E", "#"}, MaxPairLen)}
\* '#', a body, '#E'
PairedTexts ==
    {<<"#">> \o b \o <<"#", "E">> :
        b \in SeqsUpTo({"E", "f", "G", "0", " ", CYR, "|", "/"}, MaxBody)}

\* a closer that closes nothing, then a tag with a body, closed or not
OrphanTexts ==
    {<<"#", "E", "#">> \o b \o e :
        b \in SeqsUpTo({"G", "0", CYR, " "}, MaxBody), e \in {<<>>, <<"#", "E">>}}

\* braces in and around brackets
BraceTexts == SeqsUpTo({"{", "}", "<", ">"}, MaxBraceLen)

Texts ==
    AllTexts \cup HexTexts \cup MarkTexts \cup SpanTexts \cup LinkTexts
        \cup PairTexts \cup PairedTexts \cup OrphanTexts \cup BraceTexts

(***************************************************************************)
(* Python's indexing and slicing.                                          *)
(***************************************************************************)
Min(S) == CHOOSE x \in S : \A y \in S : x <= y

\* text[p]
CharAt(t, p) == t[p + 1]

\* text[a:b]
Slice(t, a, b) == SubSeq(t, a + 1, IF b < Len(t) THEN b ELSE Len(t))

\* str.count(c)
Count(t, c) == Cardinality({p \in 0..(Len(t) - 1) : CharAt(t, p) = c})

(***************************************************************************)
(* re.finditer of the pattern '<', any run without '>', '>' over text:    *)
(* the matches from an offset on, in order, as (start, end) pairs.        *)
(***************************************************************************)
\* the pattern written with a run that excludes '<' as well
RECURSIVE finditer_link_Mut(_, _)
finditer_link_Mut(t, from) ==
    LET opens == {s \in from..(Len(t) - 1) :
                     /\ CharAt(t, s) = "<"
                     /\ \E e \in (s + 1)..(Len(t) - 1) :
                           /\ CharAt(t, e) = ">"
                           /\ \A q \in (s + 1)..(e - 1) : CharAt(t, q) \notin {"<", ">"}}
    IN  IF opens = {} THEN <<>>
        ELSE LET s == Min(opens)
                 e == Min({x \in (s + 1)..(Len(t) - 1) : CharAt(t, x) = ">"})
             IN  <<<<s, e + 1>>>> \o finditer_link_Mut(t, e + 1)

RECURSIVE finditer_link(_, _)
finditer_link(t, from) ==
    LET opens == {s \in from..(Len(t) - 1) :
                     /\ CharAt(t, s) = "<"
                     /\ \E e \in (s + 1)..(Len(t) - 1) : CharAt(t, e) = ">"}
    IN  IF opens = {} THEN <<>>
        ELSE LET s == Min(opens)
                 e == Min({x \in (s + 1)..(Len(t) - 1) : CharAt(t, x) = ">"})
             IN  <<<<s, e + 1>>>> \o finditer_link(t, e + 1)

\* the end of the range taken as inclusive
is_inside_link_tag_Mut(pos) ==
    \E k \in 1..Len(link_ranges) :
        link_ranges[k][1] <= pos /\ pos <= link_ranges[k][2]

\* a return inside the loop: only the first range is looked at
is_inside_link_tag_First(pos) ==
    /\ Len(link_ranges) >= 1
    /\ link_ranges[1][1] <= pos /\ pos < link_ranges[1][2]

\* lines 130-135
is_inside_link_tag(pos) ==
    \E k \in 1..Len(link_ranges) :
        link_ranges[k][1] <= pos /\ pos < link_ranges[k][2]

(***************************************************************************)
(* The two tag patterns, matched at offset p of t (t[p] = '#').            *)
(***************************************************************************)
\* length of the longest run of characters of class S that starts at offset p
RECURSIVE RunLen(_, _, _)
RunLen(t, p, S) ==
    IF p < Len(t) /\ CharAt(t, p) \in S THEN 1 + RunLen(t, p + 1, S) ELSE 0

\* the hex colour pattern of line 158 matched at text[p:]: length of group(0), 0 if no match
hex_match(t, p) ==
    LET n == RunLen(t, p + 1, HexDigits)
    IN  IF n >= MinHexDigits THEN 1 + n ELSE 0

\* the letter tag pattern of line 172 matched at text[p:]: length of group(0), 0 if no match
letter_match(t, p) ==
    IF p + 1 < Len(t) /\ CharAt(t, p + 1) \in Letters
    THEN 2 + RunLen(t, p + 2, AlphaNum)
    ELSE 0

\* the bound of line 147 off by one
AtHash_Mut == i < Len(text) /\ CharAt(text, i) = "#" /\ i + 2 < Len(text)

\* line 147
AtHash == i < Len(text) /\ CharAt(text, i) = "#" /\ i + 1 < Len(text)

(***************************************************************************)
(* _validate_entry_tags from line 126 on: text is parts[1] of the record.  *)
(***************************************************************************)
\* lines 126-128, 138-139
FindLinkRanges ==
    /\ pc = "find_links"
    /\ link_ranges' = finditer_link(text, 0)
    /\ tag_stack' = <<>>
    /\ i' = 0
    /\ pc' = "main"
    /\ UNCHANGED <<ed_vars, asm_vars, cmp_vars, tsv_vars, text, errors, brace_stack>>

\* lines 142-144
SkipInsideLink ==
    /\ pc = "main" /\ i < Len(text)
    /\ is_inside_link_tag(i)
    /\ i' = i + 1
    /\ UNCHANGED <<ed_vars, asm_vars, cmp_vars, tsv_vars, text, link_ranges, tag_stack, errors, brace_stack, pc>>

\* the else of line 152 lost: 02 is recorded on every closer
ClosingTag_Mut ==
    /\ pc = "main" /\ i < Len(text)
    /\ ~is_inside_link_tag(i)
    /\ i < Len(text) /\ CharAt(text, i) = "#" /\ i + 1 < Len(text)
    /\ Slice(text, i, i + 2) = <<"#", "E">>
    /\ tag_stack' = SubSeq(tag_stack, 1, Len(tag_stack) - 1)
    /\ errors' = errors \cup {ERROR_CODE_CLOSING_TAG_WITHOUT_OPENING}
    /\ i' = i + 2
    /\ UNCHANGED <<ed_vars, asm_vars, cmp_vars, tsv_vars, text, link_ranges, brace_stack, pc>>

\* the hex test of line 158 made before the closer test of line 149
ClosingTag_HexFirst ==
    /\ pc = "main" /\ i < Len(text)
    /\ ~is_inside_link_tag(i)
    /\ i < Len(text) /\ CharAt(text, i) = "#" /\ i + 1 < Len(text)
    /\ Slice(text, i, i + 2) = <<"#", "E">>
    /\ IF hex_match(text, i) > 0
       THEN /\ tag_stack' = Append(tag_stack, <<i, Slice(text, i, i + hex_match(text, i))>>)
            /\ errors' = errors
            /\ i' = i + hex_match(text, i)
       ELSE /\ IF tag_stack # <<>>
               THEN /\ tag_stack' = SubSeq(tag_stack, 1, Len(tag_stack) - 1)
                    /\ errors' = errors
               ELSE /\ errors' = errors \cup {ERROR_CODE_CLOSING_TAG_WITHOUT_OPENING}
                    /\ tag_stack' = tag_stack
            /\ i' = i + 2
    /\ UNCHANGED <<ed_vars, asm_vars, cmp_vars, tsv_vars, text, link_ranges, brace_stack, pc>>

\* a closer that closes nothing ends the main pass
ClosingTag_Break ==
    /\ pc = "main" /\ i < Len(text)
    /\ ~is_inside_link_tag(i)
    /\ i < Len(text) /\ CharAt(text, i) = "#" /\ i + 1 < Len(text)
    /\ Slice(text, i, i + 2) = <<"#", "E">>
    /\ IF tag_stack # <<>>
       THEN /\ tag_stack' = SubSeq(tag_stack, 1, Len(tag_stack) - 1)
            /\ errors' = errors
            /\ i' = i + 2
       ELSE /\ errors' = errors \cup {ERROR_CODE_CLOSING_TAG_WITHOUT_OPENING}
            /\ tag_stack' = tag_stack
            /\ i' = Len(text)
    /\ UNCHANGED <<ed_vars, asm_vars, cmp_vars, tsv_vars, text, link_ranges, brace_stack, pc>>

\* lines 149-155
ClosingTag ==
    /\ pc = "main" /\ i < Len(text)
    /\ ~is_inside_link_tag(i)
    /\ AtHash
    /\ Slice(text, i, i + 2) = <<"#", "E">>
    /\ IF tag_stack # <<>>
       THEN /\ tag_stack' = SubSeq(tag_stack, 1, Len(tag_stack) - 1)
            /\ errors' = errors
       ELSE /\ errors' = errors \cup {ERROR_CODE_CLOSING_TAG_WITHOUT_OPENING}
            /\ tag_stack' = tag_stack
    /\ i' = i + 2
    /\ UNCHANGED <<ed_vars, asm_vars, cmp_vars, tsv_vars, text, link_ranges, brace_stack, pc>>

\* the bound of line 164 off by one: a hex code that ends the text is pushed
HexCode_Mut ==
    /\ pc = "main" /\ i < Len(text)
    /\ ~is_inside_link_tag(i)
    /\ i < Len(text) /\ CharAt(text, i) = "#" /\ i + 1 < Len(text)
    /\ Slice(text, i, i + 2) # <<"#", "E">>
    /\ hex_match(text, i) > 0
    /\ LET hex_code_len == hex_match(text, i)
           hex_code == Slice(text, i, i + hex_code_len)
       IN  /\ IF /\ i + hex_code_len <= Len(text)
                 /\ Slice(text, i + hex_code_len, i + hex_code_len + 2) # <<"#", "E">>
              THEN tag_stack' = Append(tag_stack, <<i, hex_code>>)
              ELSE tag_stack' = tag_stack
           /\ i' = i + hex_code_len
    /\ UNCHANGED <<ed_vars, asm_vars, cmp_vars, tsv_vars, text, link_ranges, errors, brace_stack, pc>>

\* lines 158-169
HexCode ==
    /\ pc = "main" /\ i < Len(text)
    /\ ~is_inside_link_tag(i)
    /\ AtHash
    /\ Slice(text, i, i + 2) # <<"#", "E">>
    /\ hex_match(text, i) > 0
    /\ LET hex_code_len == hex_match(text, i)
           hex_code == Slice(text, i, i + hex_code_len)
       IN  /\ IF /\ i + hex_code_len < Len(text)
                 /\ Slice(text, i + hex_code_len, i + hex_code_len + 2) # <<"#", "E">>
              THEN tag_stack' = Append(tag_stack, <<i, hex_code>>)
              ELSE tag_stack' = tag_stack
           /\ i' = i + hex_code_len
    /\ UNCHANGED <<ed_vars, asm_vars, cmp_vars, tsv_vars, text, link_ranges, errors, brace_stack, pc>>

\* the test of line 175 inverted
LetterTag_Mut ==
    /\ pc = "main" /\ i < Len(text)
    /\ ~is_inside_link_tag(i)
    /\ i < Len(text) /\ CharAt(text, i) = "#" /\ i + 1 < Len(text)
    /\ Slice(text, i, i + 2) # <<"#", "E">>
    /\ hex_match(text, i) = 0
    /\ letter_match(text, i) > 0
    /\ LET tag == Slice(text, i, i + letter_match(text, i))
       IN  /\ IF tag = <<"#", "E">>
              THEN tag_stack' = Append(tag_stack, <<i, tag>>)
              ELSE tag_stack' = tag_stack
           /\ i' = i + Len(tag)
    /\ UNCHANGED <<ed_vars, asm_vars, cmp_vars, tsv_vars, text, link_ranges, errors, brace_stack, pc>>

\* lines 172-178
LetterTag ==
    /\ pc = "main" /\ i < Len(text)
    /\ ~is_inside_link_tag(i)
    /\ AtHash
    /\ Slice(text, i, i + 2) # <<"#", "E">>
    /\ hex_match(text, i) = 0
    /\ letter_match(text, i) > 0
    /\ LET tag == Slice(text, i, i + letter_match(text, i))
       IN  /\ IF tag # <<"#", "E">>
              THEN tag_stack' = Append(tag_stack, <<i, tag>>)
              ELSE tag_stack' = tag_stack
           /\ i' = i + Len(tag)
    /\ UNCHANGED <<ed_vars, asm_vars, cmp_vars, tsv_vars, text, link_ranges, errors, brace_stack, pc>>

\* the i += 1 of line 183 lost
RussianAfterHash_Mut ==
    /\ pc = "main" /\ i < Len(text)
    /\ ~is_inside_link_tag(i)
    /\ i < Len(text) /\ CharAt(text, i) = "#" /\ i + 1 < Len(text)
    /\ Slice(text, i, i + 2) # <<"#", "E">>
    /\ hex_match(text, i) = 0
    /\ letter_match(text, i) = 0
    /\ i + 1 < Len(text) /\ CharAt(text, i + 1) \in Cyrillic
    /\ errors' = errors \cup {ERROR_CODE_RUSSIAN_AFTER_HASH}
    /\ i' = i
    /\ UNCHANGED <<ed_vars, asm_vars, cmp_vars, tsv_vars, text, link_ranges, tag_stack, brace_stack, pc>>

\* lines 181-184
RussianAfterHash ==
    /\ pc = "main" /\ i < Len(text)
    /\ ~is_inside_link_tag(i)
    /\ AtHash
    /\ Slice(text, i, i + 2) # <<"#", "E">>
    /\ hex_match(text, i) = 0
    /\ letter_match(text, i) = 0
    /\ i + 1 < Len(text) /\ CharAt(text, i + 1) \in Cyrillic
    /\ errors' = errors \cup {ERROR_CODE_RUSSIAN_AFTER_HASH}
    /\ i' = i + 1
    /\ UNCHANGED <<ed_vars, asm_vars, cmp_vars, tsv_vars, text, link_ranges, tag_stack, brace_stack, pc>>

\* line 186: no branch above took the iteration
PlainChar ==
    /\ pc = "main" /\ i < Len(text)
    /\ ~is_inside_link_tag(i)
    /\ \/ ~AtHash
       \/ /\ AtHash
          /\ Slice(text, i, i + 2) # <<"#", "E">>
          /\ hex_match(text, i) = 0
          /\ letter_match(text, i) = 0
          /\ CharAt(text, i + 1) \notin Cyrillic
    /\ i' = i + 1
    /\ UNCHANGED <<ed_vars, asm_vars, cmp_vars, tsv_vars, text, link_ranges, tag_stack, errors, brace_stack, pc>>

\* line 189 testing len(tag_stack) > 1
EndMainPass_Mut ==
    /\ pc = "main" /\ ~(i < Len(text))
    /\ errors' = IF Len(tag_stack) > 1
                 THEN errors \cup {ERROR_CODE_OPENING_TAG_WITHOUT_CLOSING}
                 ELSE errors
    /\ pc' = "links"
    /\ UNCHANGED <<ed_vars, asm_vars, cmp_vars, tsv_vars, text, link_ranges, i, tag_stack, brace_stack>>

\* lines 140, 189-190
EndMainPass ==
    /\ pc = "main" /\ ~(i < Len(text))
    /\ errors' = IF tag_stack # <<>>
                 THEN errors \cup {ERROR_CODE_OPENING_TAG_WITHOUT_CLOSING}
                 ELSE errors
    /\ pc' = "links"
    /\ UNCHANGED <<ed_vars, asm_vars, cmp_vars, tsv_vars, text, link_ranges, i, tag_stack, brace_stack>>

(***************************************************************************)
(* Link tags, lines 195-205.                                               *)
(***************************************************************************)
RECURSIVE lstrip(_)
lstrip(s) == IF s # <<>> /\ Head(s) \in Whitespace THEN lstrip(Tail(s)) ELSE s

RECURSIVE rstrip(_)
rstrip(s) ==
    IF s # <<>> /\ s[Len(s)] \in Whitespace THEN rstrip(SubSeq(s, 1, Len(s) - 1)) ELSE s

\* str.strip()
strip(s) == rstrip(lstrip(s))

\* len(link_content.split('|'))
SplitCount(s) == Count(s, "|") + 1

\* line 198 without the strip()
IsHtmlLike_Mut(link_content) ==
    link_content # <<>> /\ Head(link_content) \in UpperOrSlash

\* line 198
IsHtmlLike(link_content) ==
    strip(link_content) # <<>> /\ Head(strip(link_content)) \in UpperOrSlash

\* line 204 accepting 4 parts only
LinkInvalid_Mut(link_content) ==
    /\ ~(strip(link_content) # <<>> /\ Head(strip(link_content)) \in UpperOrSlash)
    /\ Count(link_content, "|") > 0
    /\ SplitCount(link_content) # 4

\* lines 196-205, one match: does it add code 04
LinkInvalid(link_content) ==
    /\ ~IsHtmlLike(link_content)
    /\ Count(link_content, "|") > 0
    /\ SplitCount(link_content) # 4 /\ SplitCount(link_content) # 5

\* link_match.group(1)
LinkContent(t, m) == Slice(t, m[1] + 1, m[2] - 1)

ValidateLinks ==
    /\ pc = "links"
    /\ LET matches == finditer_link(text, 0)
       IN  errors' =
             IF \E k \in 1..Len(matches) : LinkInvalid(LinkContent(text, matches[k]))
             THEN errors \cup {ERROR_CODE_LINK_TAG_INVALID}
             ELSE errors
    /\ pc' = "braces"
    /\ UNCHANGED <<ed_vars, asm_vars, cmp_vars, tsv_vars, text, link_ranges, i, tag_stack, brace_stack>>

(***************************************************************************)
(* Braces, lines 209-227.                                                  *)
(***************************************************************************)
\* the pop of line 223 lost
RECURSIVE BraceStackAt_Mut(_, _)
BraceStackAt_Mut(t, n) ==
    IF n = 0 THEN <<>>
    ELSE LET st == BraceStackAt_Mut(t, n - 1)
             char == CharAt(t, n - 1)
         IN  IF char = "{" THEN Append(st, n - 1) ELSE st

\* lines 215-223: the brace stack after the characters at offsets below n
RECURSIVE BraceStackAt(_, _)
BraceStackAt(t, n) ==
    IF n = 0 THEN <<>>
    ELSE LET st == BraceStackAt(t, n - 1)
             char == CharAt(t, n - 1)
         IN  IF char = "{" THEN Append(st, n - 1)
             ELSE IF char = "}" /\ st # <<>> THEN SubSeq(st, 1, Len(st) - 1)
             ELSE st

\* line 220 testing the stack after the pop
ClosingBraceOnEmpty_Mut(t) ==
    \E p \in 0..(Len(t) - 1) : CharAt(t, p) = "}" /\ BraceStackAt(t, p + 1) = <<>>

\* lines 219-221: some '}' is met while the brace stack is empty
ClosingBraceOnEmpty(t) ==
    \E p \in 0..(Len(t) - 1) : CharAt(t, p) = "}" /\ BraceStackAt(t, p) = <<>>

\* line 211 comparing with > instead of !=
ValidateBraces_Mut ==
    /\ pc = "braces"
    /\ brace_stack' = BraceStackAt(text, Len(text))
    /\ errors' = errors
         \cup (IF Count(text, "{") > Count(text, "}")
               THEN {ERROR_CODE_UNBALANCED_BRACES} ELSE {})
         \cup (IF ClosingBraceOnEmpty(text)
               THEN {ERROR_CODE_CLOSING_BRACE_WITHOUT_OPENING} ELSE {})
         \cup (IF BraceStackAt(text, Len(text)) # <<>>
               THEN {ERROR_CODE_OPENING_BRACE_WITHOUT_CLOSING} ELSE {})
    /\ pc' = "done"
    /\ UNCHANGED <<ed_vars, asm_vars, cmp_vars, tsv_vars, text, link_ranges, i, tag_stack>>

\* the text with the characters of the link ranges blanked
MaskLinks(t, ranges) ==
    [k \in 1..Len(t) |->
        IF \E r \in 1..Len(ranges) : ranges[r][1] <= k - 1 /\ k - 1 < ranges[r][2]
        THEN " " ELSE t[k]]

\* brace validation that skips the link ranges, as the main pass does
ValidateBraces_SkipLinks ==
    /\ pc = "braces"
    /\ brace_stack' = BraceStackAt(MaskLinks(text, link_ranges), Len(text))
    /\ errors' = errors
         \cup (IF Count(MaskLinks(text, link_ranges), "{") # Count(MaskLinks(text, link_ranges), "}")
               THEN {ERROR_CODE_UNBALANCED_BRACES} ELSE {})
         \cup (IF ClosingBraceOnEmpty(MaskLinks(text, link_ranges))
               THEN {ERROR_CODE_CLOSING_BRACE_WITHOUT_OPENING} ELSE {})
         \cup (IF BraceStackAt(MaskLinks(text, link_ranges), Len(text)) # <<>>
               THEN {ERROR_CODE_OPENING_BRACE_WITHOUT_CLOSING} ELSE {})
    /\ pc' = "done"
    /\ UNCHANGED <<ed_vars, asm_vars, cmp_vars, tsv_vars, text, link_ranges, i, tag_stack>>

\* lines 226-227 lost: braces left open are not reported
ValidateBraces_NoOpen ==
    /\ pc = "braces"
    /\ brace_stack' = BraceStackAt(text, Len(text))
    /\ errors' = errors
         \cup (IF Count(text, "{") # Count(text, "}")
               THEN {ERROR_CODE_UNBALANCED_BRACES} ELSE {})
         \cup (IF ClosingBraceOnEmpty(text)
               THEN {ERROR_CODE_CLOSING_BRACE_WITHOUT_OPENING} ELSE {})
    /\ pc' = "done"
    /\ UNCHANGED <<ed_vars, asm_vars, cmp_vars, tsv_vars, text, link_ranges, i, tag_stack>>

\* lines 209-227
ValidateBraces ==
    /\ pc = "braces"
    /\ brace_stack' = BraceStackAt(text, Len(text))
    /\ errors' = errors
         \cup (IF Count(text, "{") # Count(text, "}")
               THEN {ERROR_CODE_UNBALANCED_BRACES} ELSE {})
         \cup (IF ClosingBraceOnEmpty(text)
               THEN {ERROR_CODE_CLOSING_BRACE_WITHOUT_OPENING} ELSE {})
         \cup (IF BraceStackAt(text, Len(text)) # <<>>
               THEN {ERROR_CODE_OPENING_BRACE_WITHOUT_CLOSING} ELSE {})
    /\ pc' = "done"
    /\ UNCHANGED <<ed_vars, asm_vars, cmp_vars, tsv_vars, text, link_ranges, i, tag_stack>>

\* the variables of validate_tags, while it is not what runs
AsmIdle ==
    /\ lines = <<>>
    /\ line_num = 0
    /\ current_entry_lines = <<>>
    /\ entry_line_nums = <<>>
    /\ entry_start_line = 0
    /\ current_id = <<>>
    /\ errors_by_id = <<>>
    /\ validated = <<>>
    /\ scans = <<>>
    /\ asm_pc = "idle"

\* the variables of validate_tsv, while it is not what runs
TsvIdle == tsv_errors = <<>> /\ is_valid = FALSE /\ tsv_pc = "idle" /\ tsv_validated = <<>>

\* the variables of the editor, while it is not what runs
EdIdle ==
    /\ df = <<>> /\ dict_df = {} /\ eng_file_loaded = FALSE /\ rus_file_loaded = FALSE
    /\ current_df_index = 0 /\ filtered_indices = <<>> /\ model_indices = <<>>
    /\ rus_edited_text = <<>> /\ load_all_button = FALSE /\ last_id = <<>>
    /\ final_file = <<>> /\ pool = {} /\ events = <<>>
    /\ searches = <<>> /\ saves = <<>> /\ announced = FALSE

\* the variables of main, while it is not what runs
CmpIdle ==
    /\ ru_errors = <<>>
    /\ en_errors = <<>>
    /\ pending_ids = <<>>
    /\ labels = <<>>
    /\ has_ru_only_errors = FALSE
    /\ exit_code = -1
    /\ cmp_pc = "idle"

Init ==
    /\ text \in Texts
    /\ link_ranges = <<>>
    /\ i = 0
    /\ tag_stack = <<>>
    /\ errors = {}
    /\ brace_stack = <<>>
    /\ pc = "find_links"
    /\ AsmIdle
    /\ CmpIdle
    /\ TsvIdle
    /\ EdIdle

Next ==
    \/ FindLinkRanges
    \/ SkipInsideLink
    \/ ClosingTag
    \/ HexCode
    \/ LetterTag
    \/ RussianAfterHash
    \/ PlainChar
    \/ EndMainPass
    \/ ValidateLinks
    \/ ValidateBraces

Spec == Init /\ [][Next]_vars

(***************************************************************************)
(* validate_tags, lines 33-107: the records of a file.  lines is the       *)
(* result of f.readlines(): every line ends with a newline, the last one   *)
(* possibly not.  entry_line_nums, validated and scans are history: the    *)
(* numbers of the lines held in current_entry_lines, the calls of          *)
(* _validate_entry_tags made so far, and the codes each call added.        *)
(***************************************************************************)
TAB == "\t"
NL == "\n"
CR == "\r"

\* {16} in the pattern of line 74
IdLen == 16

\* lines after the header in the checked files
MaxLines == 3

\* str.rstrip of newline and carriage return, with no stripping at all
rstrip_newlines_Mut(s) == s

\* str.rstrip of newline and carriage return, lines 67 and 115
RECURSIVE rstrip_newlines(_)
rstrip_newlines(s) ==
    IF s # <<>> /\ s[Len(s)] \in {NL, CR}
    THEN rstrip_newlines(SubSeq(s, 1, Len(s) - 1))
    ELSE s

\* what str.strip() removes from a line
LineWhitespace == {" ", TAB, NL, CR}

\* line 70: not line.strip()
IsBlank(line) == \A k \in 1..Len(line) : line[k] \in LineWhitespace

\* the pattern of line 74 with {16,} for {16}
is_new_entry_Mut(line) ==
    /\ RunLen(line, 0, HexDigits) >= IdLen
    /\ RunLen(line, 0, HexDigits) < Len(line)
    /\ CharAt(line, RunLen(line, 0, HexDigits)) = TAB

\* the pattern of line 74 without its tab
is_new_entry_NoTab(line) ==
    /\ Len(line) >= IdLen
    /\ \A k \in 1..IdLen : line[k] \in HexDigits

\* line 74: re.match of 16 hex digits and a tab at the start of the line
is_new_entry(line) ==
    /\ Len(line) >= IdLen + 1
    /\ \A k \in 1..IdLen : line[k] \in HexDigits
    /\ line[IdLen + 1] = TAB

\* s.split(TAB, 1)
split_tab(s) ==
    IF \E k \in 1..Len(s) : s[k] = TAB
    THEN LET k == Min({j \in 1..Len(s) : s[j] = TAB})
         IN  <<SubSeq(s, 1, k - 1), SubSeq(s, k + 1, Len(s))>>
    ELSE <<s>>

\* ''.join(seq)
RECURSIVE join(_)
join(seq) == IF seq = <<>> THEN <<>> ELSE Head(seq) \o join(Tail(seq))

(***************************************************************************)
(* The checked files: a header and up to MaxLines lines out of a sample.   *)
(***************************************************************************)
Key1 == [k \in 1..IdLen |-> "0"]
Key2 == [k \in 1..IdLen |-> IF k = 1 THEN "f" ELSE IF k = 2 THEN "E" ELSE "0"]
Hex15 == SubSeq(Key1, 1, IdLen - 1)

\* a payload that holds every kind of markup
Markup == <<"<", ">", "#", "E", "#", "G", "#", "0", "0", "0", "#", CYR>>

LineSample ==
    { Key1 \o <<TAB, "{">>,            \* a record start, its payload opens a brace
      Key2 \o <<TAB>>,                 \* a record start with an empty payload
      Key2 \o <<TAB>> \o Markup,       \* a record start with markup
      Hex15 \o <<TAB, "G">>,           \* 15 hex digits before the tab
      Key1 \o <<"f", TAB, "G">>,       \* 17 hex digits before the tab
      Hex15 \o <<"G", TAB, "G">>,      \* a letter that is no hex digit among the 16
      <<"}">>,                         \* plain text
      <<>>,                            \* empty
      <<" ", TAB>> }                   \* whitespace only

Header == <<"G", TAB, "G", NL>>

\* the lines as readlines() returns them; the last one may lack its newline
Files ==
    {<<>>}
    \cup {<<Header>> \o [k \in 1..Len(body) |-> body[k] \o <<NL>>] :
             body \in SeqsUpTo(LineSample, MaxLines)}
    \cup {<<Header>> \o [k \in 1..Len(body) |->
                            IF k < Len(body) THEN body[k] \o <<NL>> ELSE body[k]] :
             body \in {b \in SeqsUpTo(LineSample, MaxLines) : b # <<>> /\ b[Len(b)] # <<>>}}

ScanIdle ==
    /\ text = <<>> /\ link_ranges = <<>> /\ i = 0 /\ tag_stack = <<>>
    /\ errors = {} /\ brace_stack = <<>> /\ pc = "idle"

\* lines 40-63, up to the first iteration of the loop of line 65
InitAsm ==
    /\ lines \in Files
    /\ line_num = 2
    /\ current_entry_lines = <<>>
    /\ entry_line_nums = <<>>
    /\ entry_start_line = 0
    /\ current_id = <<>>
    /\ errors_by_id = <<>>
    /\ validated = <<>>
    /\ scans = <<>>
    /\ asm_pc = IF Len(lines) = 0 THEN "done" ELSE "loop"
    /\ ScanIdle
    /\ CmpIdle
    /\ TsvIdle
    /\ EdIdle

\* the loop of line 65 has a line to take
AtLine == asm_pc = "loop" /\ line_num <= Len(lines)

\* line 67
CurLine == rstrip_newlines(lines[line_num])

\* a call that starts from the codes already recorded for the id
validate_entry_Mut(next_pc) ==
    LET full_text == rstrip_newlines(join(current_entry_lines))
        parts == split_tab(full_text)
    IN  /\ IF Len(parts) # 2
           THEN /\ pc' = "done"
                /\ text' = <<>>
                /\ validated' = validated
           ELSE /\ pc' = "find_links"
                /\ text' = parts[2]
                /\ validated' = Append(validated,
                      [start_line |-> entry_start_line, id |-> current_id,
                       text |-> parts[2], line_nums |-> entry_line_nums])
        /\ link_ranges' = <<>> /\ i' = 0 /\ tag_stack' = <<>>
        /\ errors' = IF current_id \in DOMAIN errors_by_id THEN errors_by_id[current_id] ELSE {}
        /\ brace_stack' = <<>>
        /\ asm_pc' = next_pc

\* lines 79-82 and 101-104 with lines 115-126: the call of _validate_entry_tags
validate_entry(next_pc) ==
    LET full_text == rstrip_newlines(join(current_entry_lines))
        parts == split_tab(full_text)
    IN  /\ IF Len(parts) # 2
           THEN /\ pc' = "done"
                /\ text' = <<>>
                /\ validated' = validated
           ELSE /\ pc' = "find_links"
                /\ text' = parts[2]
                /\ validated' = Append(validated,
                      [start_line |-> entry_start_line, id |-> current_id,
                       text |-> parts[2], line_nums |-> entry_line_nums])
        /\ link_ranges' = <<>> /\ i' = 0 /\ tag_stack' = <<>>
        /\ errors' = {} /\ brace_stack' = <<>>
        /\ asm_pc' = next_pc

\* a blank line closing the open record
SkipBlank_Mut ==
    /\ asm_pc = "loop" /\ line_num <= Len(lines)
    /\ IsBlank(rstrip_newlines(lines[line_num]))
    /\ line_num' = line_num + 1
    /\ current_entry_lines' = <<>>
    /\ entry_line_nums' = <<>>
    /\ UNCHANGED <<ed_vars, scan_vars, cmp_vars, tsv_vars, lines, entry_start_line,
                   current_id, errors_by_id, validated, scans, asm_pc>>

\* lines 70-71
SkipBlank ==
    /\ AtLine
    /\ IsBlank(CurLine)
    /\ line_num' = line_num + 1
    /\ UNCHANGED <<ed_vars, scan_vars, cmp_vars, tsv_vars, lines, current_entry_lines, entry_line_nums,
                   entry_start_line, current_id, errors_by_id, validated, scans, asm_pc>>

\* lines 74-84: a record start, the record held so far is validated
NewEntry ==
    /\ AtLine
    /\ ~IsBlank(CurLine)
    /\ is_new_entry(CurLine)
    /\ IF current_entry_lines # <<>> /\ entry_start_line # 0 /\ current_id # <<>>
       THEN validate_entry("flush")
       ELSE /\ asm_pc' = "begin"
            /\ UNCHANGED <<scan_vars, validated>>
    /\ UNCHANGED <<ed_vars, cmp_vars, tsv_vars, lines, line_num, current_entry_lines, entry_line_nums,
                   entry_start_line, current_id, errors_by_id, scans>>

\* the codes of the call assigned to errors_by_id[current_id]
EntryValidated_Replace ==
    /\ asm_pc \in {"flush", "flush_last"}
    /\ pc = "done"
    /\ errors_by_id' =
         IF errors = {} THEN errors_by_id
         ELSE [k \in DOMAIN errors_by_id \cup {current_id} |->
                  IF k = current_id THEN errors ELSE errors_by_id[k]]
    /\ asm_pc' = IF asm_pc = "flush" THEN "begin" ELSE "done"
    /\ text' = <<>> /\ link_ranges' = <<>> /\ i' = 0 /\ tag_stack' = <<>>
    /\ errors' = {} /\ brace_stack' = <<>> /\ pc' = "idle"
    /\ scans' = Append(scans, [id |-> current_id, text |-> text, codes |-> errors])
    /\ UNCHANGED <<ed_vars, cmp_vars, tsv_vars, lines, line_num, current_entry_lines, entry_line_nums,
                   entry_start_line, current_id, validated>>

\* errors_by_id[current_id] read at the end of the call: the key exists from then on
EntryValidated_Touch ==
    /\ asm_pc \in {"flush", "flush_last"}
    /\ pc = "done"
    /\ errors_by_id' =
         [k \in DOMAIN errors_by_id \cup {current_id} |->
             (IF k \in DOMAIN errors_by_id THEN errors_by_id[k] ELSE {})
             \cup (IF k = current_id THEN errors ELSE {})]
    /\ asm_pc' = IF asm_pc = "flush" THEN "begin" ELSE "done"
    /\ text' = <<>> /\ link_ranges' = <<>> /\ i' = 0 /\ tag_stack' = <<>>
    /\ errors' = {} /\ brace_stack' = <<>> /\ pc' = "idle"
    /\ scans' = Append(scans, [id |-> current_id, text |-> text, codes |-> errors])
    /\ UNCHANGED <<ed_vars, cmp_vars, tsv_vars, lines, line_num, current_entry_lines, entry_line_nums,
                   entry_start_line, current_id, validated>>

\* the codes of the call, added to errors_by_id[current_id]
EntryValidated ==
    /\ asm_pc \in {"flush", "flush_last"}
    /\ pc = "done"
    /\ errors_by_id' =
         IF errors = {} THEN errors_by_id
         ELSE [k \in DOMAIN errors_by_id \cup {current_id} |->
                  (IF k \in DOMAIN errors_by_id THEN errors_by_id[k] ELSE {})
                  \cup (IF k = current_id THEN errors ELSE {})]
    /\ asm_pc' = IF asm_pc = "flush" THEN "begin" ELSE "done"
    /\ text' = <<>> /\ link_ranges' = <<>> /\ i' = 0 /\ tag_stack' = <<>>
    /\ errors' = {} /\ brace_stack' = <<>> /\ pc' = "idle"
    /\ scans' = Append(scans, [id |-> current_id, text |-> text, codes |-> errors])
    /\ UNCHANGED <<ed_vars, cmp_vars, tsv_vars, lines, line_num, current_entry_lines, entry_line_nums,
                   entry_start_line, current_id, validated>>

\* lines 87-92
BeginEntry ==
    /\ asm_pc = "begin"
    /\ current_entry_lines' = <<lines[line_num]>>
    /\ entry_line_nums' = <<line_num>>
    /\ entry_start_line' = line_num
    /\ current_id' = IF Len(split_tab(CurLine)) = 2 THEN split_tab(CurLine)[1] ELSE current_id
    /\ line_num' = line_num + 1
    /\ asm_pc' = "loop"
    /\ UNCHANGED <<ed_vars, scan_vars, cmp_vars, tsv_vars, lines, errors_by_id, validated, scans>>

\* the else of line 93 taken for record start lines as well
ContinueEntry_Mut ==
    /\ asm_pc = "loop" /\ line_num <= Len(lines)
    /\ ~IsBlank(rstrip_newlines(lines[line_num]))
    /\ IF current_entry_lines # <<>>
       THEN /\ current_entry_lines' = Append(current_entry_lines, lines[line_num])
            /\ entry_line_nums' = Append(entry_line_nums, line_num)
       ELSE UNCHANGED <<current_entry_lines, entry_line_nums>>
    /\ line_num' = line_num + 1
    /\ UNCHANGED <<ed_vars, scan_vars, cmp_vars, tsv_vars, lines, entry_start_line, current_id,
                   errors_by_id, validated, scans, asm_pc>>

\* line 95 lost: a line met while no record is open opens one
ContinueEntry_Orphan ==
    /\ asm_pc = "loop" /\ line_num <= Len(lines)
    /\ ~IsBlank(rstrip_newlines(lines[line_num]))
    /\ ~is_new_entry(rstrip_newlines(lines[line_num]))
    /\ current_entry_lines' = Append(current_entry_lines, lines[line_num])
    /\ entry_line_nums' = Append(entry_line_nums, line_num)
    /\ line_num' = line_num + 1
    /\ UNCHANGED <<ed_vars, scan_vars, cmp_vars, tsv_vars, lines, entry_start_line, current_id,
                   errors_by_id, validated, scans, asm_pc>>

\* lines 93-96
ContinueEntry ==
    /\ AtLine
    /\ ~IsBlank(CurLine)
    /\ ~is_new_entry(CurLine)
    /\ IF current_entry_lines # <<>>
       THEN /\ current_entry_lines' = Append(current_entry_lines, lines[line_num])
            /\ entry_line_nums' = Append(entry_line_nums, line_num)
       ELSE UNCHANGED <<current_entry_lines, entry_line_nums>>
    /\ line_num' = line_num + 1
    /\ UNCHANGED <<ed_vars, scan_vars, cmp_vars, tsv_vars, lines, entry_start_line, current_id,
                   errors_by_id, validated, scans, asm_pc>>

\* the last record never validated
FlushLast_Mut ==
    /\ asm_pc = "loop" /\ line_num > Len(lines)
    /\ asm_pc' = "done"
    /\ UNCHANGED <<ed_vars, scan_vars, cmp_vars, tsv_vars, lines, line_num, current_entry_lines,
                   entry_line_nums, entry_start_line, current_id, errors_by_id, validated,
                   scans>>

\* lines 99-105
FlushLast ==
    /\ asm_pc = "loop" /\ line_num > Len(lines)
    /\ IF current_entry_lines # <<>> /\ entry_start_line # 0 /\ current_id # <<>>
       THEN validate_entry("flush_last")
       ELSE /\ asm_pc' = "done"
            /\ UNCHANGED <<scan_vars, validated>>
    /\ UNCHANGED <<ed_vars, cmp_vars, tsv_vars, lines, line_num, current_entry_lines, entry_line_nums,
                   entry_start_line, current_id, errors_by_id, scans>>

NextAsm ==
    \/ SkipBlank
    \/ NewEntry
    \/ EntryValidated
    \/ BeginEntry
    \/ ContinueEntry
    \/ FlushLast
    \/ Next

SpecAsm == InitAsm /\ [][NextAsm]_vars

(***************************************************************************)
(* main, lines 334-393: the codes of the two files compared id by id.      *)
(* ru_errors and en_errors are what validate_tags returned: an id is a key *)
(* only if a code was added for it.  labels is history: the label of each  *)
(* iteration of the loop of line 347.                                      *)
(***************************************************************************)
\* ids in the checked maps: n - 1 times 'f', then '0' up to 16 characters
MaxIds == 3
KeyOf(n) == [k \in 1..IdLen |-> IF k < n THEN "f" ELSE "0"]
Ids == {KeyOf(n) : n \in 1..MaxIds}

\* the sets of codes in the checked maps
CodeSets ==
    {{ERROR_CODE_OPENING_TAG_WITHOUT_CLOSING}, {ERROR_CODE_UNBALANCED_BRACES},
     {ERROR_CODE_UNBALANCED_BRACES, ERROR_CODE_OPENING_BRACE_WITHOUT_CLOSING}}

ErrorMaps == UNION {[D -> CodeSets] : D \in SUBSET Ids}

\* dict.get(entry_id, set())
Get(d, entry_id) == IF entry_id \in DOMAIN d THEN d[entry_id] ELSE {}

\* the order of the code points of the hex digits: '0' < 'E' < 'f'
CharRank(c) == IF c = "0" THEN 0 ELSE IF c = "E" THEN 1 ELSE 2

\* a <= b for strings of hex digits
StrLeq(a, b) ==
    \/ Len(a) <= Len(b) /\ a = SubSeq(b, 1, Len(a))
    \/ \E k \in 1..Len(a) :
          /\ k <= Len(b)
          /\ \A j \in 1..(k - 1) : a[j] = b[j]
          /\ CharRank(a[k]) < CharRank(b[k])

\* sorted(S)
RECURSIVE sorted(_)
sorted(S) ==
    IF S = {} THEN <<>>
    ELSE LET m == CHOOSE x \in S : \A y \in S : StrLeq(x, y)
         IN  <<m>> \o sorted(S \ {m})

InitCmp ==
    /\ ru_errors \in ErrorMaps
    /\ en_errors \in ErrorMaps
    /\ pending_ids = <<>>
    /\ labels = <<>>
    /\ has_ru_only_errors = FALSE
    /\ exit_code = -1
    /\ cmp_pc = "all_ids"
    /\ ScanIdle
    /\ AsmIdle
    /\ TsvIdle
    /\ EdIdle

\* lines 335-344
AllIds ==
    /\ cmp_pc = "all_ids"
    /\ LET all_ids == DOMAIN ru_errors \cup DOMAIN en_errors
       IN  IF all_ids = {}
           THEN /\ exit_code' = 0
                /\ cmp_pc' = "done"
                /\ pending_ids' = <<>>
           ELSE /\ pending_ids' = sorted(all_ids)
                /\ cmp_pc' = "loop"
                /\ exit_code' = exit_code
    /\ has_ru_only_errors' = FALSE
    /\ UNCHANGED <<ed_vars, scan_vars, asm_vars, tsv_vars, ru_errors, en_errors, labels>>

\* line 352 with or for and
Classify_Mut ==
    /\ cmp_pc = "loop" /\ pending_ids # <<>>
    /\ LET entry_id == Head(pending_ids)
           ru_error_codes == Get(ru_errors, entry_id)
           en_error_codes == Get(en_errors, entry_id)
       IN  IF ru_error_codes # {} \/ en_error_codes # {}
           THEN /\ labels' = Append(labels, <<entry_id, "[RU\\EN]">>)
                /\ has_ru_only_errors' = has_ru_only_errors
           ELSE IF en_error_codes # {}
           THEN /\ labels' = Append(labels, <<entry_id, "[EN]">>)
                /\ has_ru_only_errors' = has_ru_only_errors
           ELSE /\ labels' = Append(labels, <<entry_id, "[RU]">>)
                /\ has_ru_only_errors' = TRUE
    /\ pending_ids' = Tail(pending_ids)
    /\ UNCHANGED <<ed_vars, scan_vars, asm_vars, tsv_vars, ru_errors, en_errors, exit_code, cmp_pc>>

\* lines 347-361: one iteration of the loop
Classify ==
    /\ cmp_pc = "loop" /\ pending_ids # <<>>
    /\ LET entry_id == Head(pending_ids)
           ru_error_codes == Get(ru_errors, entry_id)
           en_error_codes == Get(en_errors, entry_id)
       IN  IF ru_error_codes # {} /\ en_error_codes # {}
           THEN /\ labels' = Append(labels, <<entry_id, "[RU\\EN]">>)
                /\ has_ru_only_errors' = has_ru_only_errors
           ELSE IF en_error_codes # {}
           THEN /\ labels' = Append(labels, <<entry_id, "[EN]">>)
                /\ has_ru_only_errors' = has_ru_only_errors
           ELSE /\ labels' = Append(labels, <<entry_id, "[RU]">>)
                /\ has_ru_only_errors' = TRUE
    /\ pending_ids' = Tail(pending_ids)
    /\ UNCHANGED <<ed_vars, scan_vars, asm_vars, tsv_vars, ru_errors, en_errors, exit_code, cmp_pc>>

\* exit status 1 whenever an id was listed
Exit_Mut ==
    /\ cmp_pc = "loop" /\ pending_ids = <<>>
    /\ exit_code' = IF labels # <<>> THEN 1 ELSE 0
    /\ cmp_pc' = "done"
    /\ UNCHANGED <<ed_vars, scan_vars, asm_vars, tsv_vars, ru_errors, en_errors, pending_ids, labels,
                   has_ru_only_errors>>

\* lines 385-393
Exit ==
    /\ cmp_pc = "loop" /\ pending_ids = <<>>
    /\ exit_code' = IF has_ru_only_errors THEN 1 ELSE 0
    /\ cmp_pc' = "done"
    /\ UNCHANGED <<ed_vars, scan_vars, asm_vars, tsv_vars, ru_errors, en_errors, pending_ids, labels,
                   has_ru_only_errors>>

NextCmp ==
    \/ AllIds
    \/ Classify
    \/ Exit

SpecCmp == InitCmp /\ [][NextCmp]_vars

(***************************************************************************)
(* main, lines 307-393, as a whole: validate_tags reads the primary file,  *)
(* then the reference file if there is one, and the comparison follows.    *)
(* cmp_pc tells where main stands: "ru" and "en" while validate_tags reads *)
(* the file of that name, "no_primary" after the exit of line 320.         *)
(***************************************************************************)
\* lines of the files main reads
MainLineSample ==
    { Key1 \o <<TAB, "{">>,            \* a record with codes
      Key1 \o <<TAB, "G">>,            \* a record without
      Key2 \o <<TAB>> \o Markup,       \* a record with every kind of markup
      <<"}">>,                         \* a continuation line
      <<>> }                           \* a blank line

MaxMainLines == 2

MainFiles ==
    {<<Header>> \o [k \in 1..Len(body) |-> body[k] \o <<NL>>] :
        body \in SeqsUpTo(MainLineSample, MaxMainLines)}

InitMain ==
    /\ ScanIdle
    /\ AsmIdle
    /\ TsvIdle
    /\ EdIdle
    /\ ru_errors = <<>>
    /\ en_errors = <<>>
    /\ pending_ids = <<>>
    /\ labels = <<>>
    /\ has_ru_only_errors = FALSE
    /\ exit_code = -1
    /\ cmp_pc = "start"

\* lines 40-63: validate_tags begins to read the file f
StartValidate(f) ==
    /\ lines' = f
    /\ line_num' = 2
    /\ current_entry_lines' = <<>>
    /\ entry_line_nums' = <<>>
    /\ entry_start_line' = 0
    /\ current_id' = <<>>
    /\ errors_by_id' = <<>>
    /\ validated' = <<>>
    /\ scans' = <<>>
    /\ asm_pc' = IF Len(f) = 0 THEN "done" ELSE "loop"

\* lines 318-320
NoPrimary ==
    /\ cmp_pc = "start"
    /\ exit_code' = 1
    /\ cmp_pc' = "no_primary"
    /\ UNCHANGED <<ed_vars, scan_vars, asm_vars, tsv_vars, ru_errors, en_errors, pending_ids, labels,
                   has_ru_only_errors>>

\* lines 318-324: the primary file exists, validate_tags is called for it
ReadPrimary ==
    /\ cmp_pc = "start"
    /\ \E f \in MainFiles : StartValidate(f)
    /\ cmp_pc' = "ru"
    /\ UNCHANGED <<ed_vars, scan_vars, tsv_vars, ru_errors, en_errors, pending_ids, labels,
                   has_ru_only_errors, exit_code>>

\* lines 324-330: the first call has returned, the reference file exists
ReadReference ==
    /\ cmp_pc = "ru" /\ asm_pc = "done"
    /\ ru_errors' = errors_by_id
    /\ \E f \in MainFiles : StartValidate(f)
    /\ cmp_pc' = "en"
    /\ UNCHANGED <<ed_vars, scan_vars, tsv_vars, en_errors, pending_ids, labels,
                   has_ru_only_errors, exit_code>>

\* lines 324-333: the first call has returned, there is no reference file
NoReference ==
    /\ cmp_pc = "ru" /\ asm_pc = "done"
    /\ ru_errors' = errors_by_id
    /\ en_errors' = <<>>
    /\ cmp_pc' = "all_ids"
    /\ UNCHANGED <<ed_vars, scan_vars, asm_vars, tsv_vars, pending_ids, labels,
                   has_ru_only_errors, exit_code>>

\* line 330: the second call has returned
ReferenceRead ==
    /\ cmp_pc = "en" /\ asm_pc = "done"
    /\ en_errors' = errors_by_id
    /\ cmp_pc' = "all_ids"
    /\ UNCHANGED <<ed_vars, scan_vars, asm_vars, tsv_vars, ru_errors, pending_ids, labels,
                   has_ru_only_errors, exit_code>>

NextMain ==
    \/ NoPrimary
    \/ ReadPrimary
    \/ ReadReference
    \/ NoReference
    \/ ReferenceRead
    \/ NextAsm
    \/ NextCmp

SpecMain == InitMain /\ [][NextMain]_vars

(***************************************************************************)
(* validate_tsv.py: validate_tsv, lines 17-132, and _validate_entry, lines *)
(* 135-178.  tsv_errors is the list errors; an error is the pair of its    *)
(* kind and the line number its message names.  validated is history, as   *)
(* for validate_tags: the calls of _validate_entry made so far.            *)
(***************************************************************************)
\* the header asked for at line 48
HeaderPrefix ==
    <<"I", "D", TAB, "O", "r", "i", "g", "i", "n", "a", "l", "T", "e", "x", "t">>

\* lines of the checked files
TsvLineSample ==
    { Key1 \o <<TAB, "G">>,            \* a record start
      Key2 \o <<TAB, "G", TAB, "G">>,  \* a record start, a tab in its payload
      Key2 \o <<TAB>>,                 \* a record start with an empty payload
      <<"G">>,                         \* plain text
      <<"G", TAB, "G">>,               \* text with a tab
      <<>>,                            \* empty
      <<" ", TAB>> }                   \* whitespace only

\* files with the header asked for and with another one
TsvFiles ==
    {<<>>}
    \cup {<<h>> \o [k \in 1..Len(body) |-> body[k] \o <<NL>>] :
             h \in {HeaderPrefix \o <<NL>>, Header},
             body \in SeqsUpTo(TsvLineSample, MaxLines)}
    \cup {<<HeaderPrefix \o <<NL>>>> \o [k \in 1..Len(body) |->
                            IF k < Len(body) THEN body[k] \o <<NL>> ELSE body[k]] :
             body \in {b \in SeqsUpTo(TsvLineSample, MaxLines) : b # <<>> /\ b[Len(b)] # <<>>}}

\* id_pattern.match, line 52: 16 hex digits, then the end or a final newline
id_pattern_match(id_value) ==
    LET v == IF id_value # <<>> /\ id_value[Len(id_value)] = NL
             THEN SubSeq(id_value, 1, Len(id_value) - 1) ELSE id_value
    IN  Len(v) = IdLen /\ \A k \in 1..IdLen : v[k] \in HexDigits

\* parts[1] of a record, empty if the record has no tab
entry_text(full_text) ==
    LET parts == split_tab(rstrip_newlines(full_text))
    IN  IF Len(parts) = 2 THEN parts[2] ELSE <<>>

\* line 166 looking at the first line of the text only
validate_tsv_entry_Mut(start_line, full_text) ==
    LET parts == split_tab(rstrip_newlines(full_text))
    IN  IF Len(parts) # 2 THEN <<<<"format", start_line>>>>
        ELSE (IF ~id_pattern_match(parts[1]) THEN <<<<"bad_id", start_line>>>> ELSE <<>>)
             \o (IF \E k \in 1..Len(parts[2]) :
                       parts[2][k] = TAB /\ \A j \in 1..k : parts[2][j] # NL
                 THEN <<<<"extra_tabs", start_line>>>> ELSE <<>>)
             \o (IF IsBlank(parts[2]) THEN <<<<"empty_text", start_line>>>> ELSE <<>>)

\* _validate_entry, lines 135-178: the errors it appends
validate_tsv_entry(start_line, full_text) ==
    LET parts == split_tab(rstrip_newlines(full_text))
    IN  IF Len(parts) # 2 THEN <<<<"format", start_line>>>>
        ELSE (IF ~id_pattern_match(parts[1]) THEN <<<<"bad_id", start_line>>>> ELSE <<>>)
             \o (IF Count(parts[2], TAB) > 0
                 THEN <<<<"extra_tabs", start_line>>>> ELSE <<>>)
             \o (IF IsBlank(parts[2]) THEN <<<<"empty_text", start_line>>>> ELSE <<>>)

\* lines 82-86 and 126-129: the record held so far, if any, is validated
EntryErrors ==
    IF current_entry_lines # <<>> /\ entry_start_line # 0
    THEN validate_tsv_entry(entry_start_line, join(current_entry_lines))
    ELSE <<>>

EntryCalls ==
    IF current_entry_lines # <<>> /\ entry_start_line # 0
    THEN <<[start_line |-> entry_start_line, id |-> current_id,
            text |-> entry_text(join(current_entry_lines)), line_nums |-> entry_line_nums]>>
    ELSE <<>>

\* lines 24-57
InitTsv ==
    /\ lines \in TsvFiles
    /\ line_num = 2
    /\ current_entry_lines = <<>>
    /\ entry_line_nums = <<>>
    /\ entry_start_line = 0
    /\ current_id = <<>>
    /\ errors_by_id = <<>>
    /\ validated = <<>>
    /\ scans = <<>>
    /\ asm_pc = "idle"
    /\ tsv_errors =
         IF Len(lines) = 0 THEN <<<<"empty", 0>>>>
         ELSE IF Slice(rstrip_newlines(lines[1]), 0, Len(HeaderPrefix)) # HeaderPrefix
         THEN <<<<"header", 1>>>>
         ELSE <<>>
    /\ is_valid = FALSE
    /\ tsv_pc = IF Len(lines) = 0 THEN "done" ELSE "loop"
    /\ tsv_validated = <<>>
    /\ ScanIdle
    /\ CmpIdle
    /\ EdIdle

TsvAtLine == tsv_pc = "loop" /\ line_num <= Len(lines)

\* lines 65-71 lost: a blank line closes the record without an error
TsvBlank_Silent ==
    /\ tsv_pc = "loop" /\ line_num <= Len(lines)
    /\ IsBlank(rstrip_newlines(lines[line_num]))
    /\ current_entry_lines' = <<>>
    /\ entry_line_nums' = <<>>
    /\ entry_start_line' = 0
    /\ current_id' = <<>>
    /\ line_num' = line_num + 1
    /\ UNCHANGED <<ed_vars, scan_vars, cmp_vars, lines, errors_by_id, validated, scans, asm_pc,
                   tsv_errors, is_valid, tsv_pc, tsv_validated>>

\* lines 64-75
TsvBlank ==
    /\ TsvAtLine
    /\ IsBlank(CurLine)
    /\ IF current_entry_lines # <<>>
       THEN /\ tsv_errors' = Append(tsv_errors, <<"blank_inside", line_num>>)
            /\ current_entry_lines' = <<>>
            /\ entry_line_nums' = <<>>
            /\ entry_start_line' = 0
            /\ current_id' = <<>>
       ELSE UNCHANGED <<tsv_errors, current_entry_lines, entry_line_nums,
                        entry_start_line, current_id>>
    /\ line_num' = line_num + 1
    /\ UNCHANGED <<ed_vars, scan_vars, cmp_vars, lines, errors_by_id, validated, scans, asm_pc,
                   is_valid, tsv_pc, tsv_validated>>

\* lines 78-111
TsvNewEntry ==
    /\ TsvAtLine
    /\ ~IsBlank(CurLine)
    /\ is_new_entry(CurLine)
    /\ validated' = validated \o EntryCalls
    /\ LET parts == split_tab(CurLine)
       IN  IF Len(parts) # 2
           THEN /\ tsv_errors' = (tsv_errors \o EntryErrors) \o <<<<"no_tab", line_num>>>>
                /\ current_entry_lines' = <<>>
                /\ entry_line_nums' = <<>>
                /\ entry_start_line' = 0
                /\ current_id' = <<>>
           ELSE /\ tsv_errors' = (tsv_errors \o EntryErrors)
                      \o (IF ~id_pattern_match(parts[1])
                          THEN <<<<"bad_id", line_num>>>> ELSE <<>>)
                /\ current_entry_lines' = <<lines[line_num]>>
                /\ entry_line_nums' = <<line_num>>
                /\ entry_start_line' = line_num
                /\ current_id' = parts[1]
    /\ line_num' = line_num + 1
    /\ UNCHANGED <<ed_vars, scan_vars, cmp_vars, lines, errors_by_id, scans, asm_pc, is_valid, tsv_pc, tsv_validated>>

\* lines 112-123
TsvContinue ==
    /\ TsvAtLine
    /\ ~IsBlank(CurLine)
    /\ ~is_new_entry(CurLine)
    /\ IF current_entry_lines = <<>>
       THEN /\ tsv_errors' = Append(tsv_errors, <<"orphan", line_num>>)
            /\ UNCHANGED <<current_entry_lines, entry_line_nums>>
       ELSE /\ current_entry_lines' = Append(current_entry_lines, lines[line_num])
            /\ entry_line_nums' = Append(entry_line_nums, line_num)
            /\ tsv_errors' = tsv_errors
    /\ line_num' = line_num + 1
    /\ UNCHANGED <<ed_vars, scan_vars, cmp_vars, lines, entry_start_line, current_id, errors_by_id,
                   validated, scans, asm_pc, is_valid, tsv_pc, tsv_validated>>

\* lines 126-132
TsvFinish ==
    /\ tsv_pc = "loop" /\ line_num > Len(lines)
    /\ validated' = validated \o EntryCalls
    /\ tsv_errors' = tsv_errors \o EntryErrors
    /\ is_valid' = (Len(tsv_errors \o EntryErrors) = 0)
    /\ tsv_pc' = "done"
    /\ UNCHANGED <<ed_vars, scan_vars, cmp_vars, lines, line_num, current_entry_lines,
                   entry_line_nums, entry_start_line, current_id, errors_by_id, scans, asm_pc,
                   tsv_validated>>

NextTsv ==
    \/ TsvBlank
    \/ TsvNewEntry
    \/ TsvContinue
    \/ TsvFinish

SpecTsv == InitTsv /\ [][NextTsv]_vars

(***************************************************************************)
(* The two validators run on one file, validate_tsv first: tsv_validated   *)
(* keeps the records validate_tsv handed to _validate_entry while          *)
(* validate_tags reads the same lines.                                     *)
(***************************************************************************)
PairLineSample ==
    { Key1 \o <<TAB, "G">>,            \* a record start
      Key2 \o <<TAB>> \o Markup,       \* a record start with markup
      <<"G">>,                         \* plain text
      <<>> }                           \* a blank line

PairFiles ==
    {<<HeaderPrefix \o <<NL>>>> \o [k \in 1..Len(body) |-> body[k] \o <<NL>>] :
        body \in SeqsUpTo(PairLineSample, MaxLines)}

InitPair ==
    /\ lines \in PairFiles
    /\ line_num = 2
    /\ current_entry_lines = <<>>
    /\ entry_line_nums = <<>>
    /\ entry_start_line = 0
    /\ current_id = <<>>
    /\ errors_by_id = <<>>
    /\ validated = <<>>
    /\ scans = <<>>
    /\ asm_pc = "idle"
    /\ tsv_errors = <<>>
    /\ is_valid = FALSE
    /\ tsv_pc = "loop"
    /\ tsv_validated = <<>>
    /\ ScanIdle
    /\ CmpIdle
    /\ EdIdle

\* validate_tsv has returned; validate_tags is called for the same file
TagsAfterTsv ==
    /\ tsv_pc = "done" /\ asm_pc = "idle"
    /\ tsv_validated' = validated
    /\ StartValidate(lines)
    /\ UNCHANGED <<ed_vars, scan_vars, cmp_vars, tsv_errors, is_valid, tsv_pc>>

NextPair ==
    \/ NextTsv
    \/ TagsAfterTsv
    \/ NextAsm

SpecPair == InitPair /\ [][NextPair]_vars

(***************************************************************************)
(* The translation editor (test/editor.py), SpecEd.  A DataFrame is the    *)
(* sequence of its rows, row k of the model being pandas index k - 1; the  *)
(* column DISPLAY_TEXT, which only the list view reads, is left out.  A    *)
(* task started on the pool sits in pool until a pool thread runs it; the  *)
(* finished signal it emits waits in events until the GUI thread delivers  *)
(* it to the connected slot.  The pool runs its tasks in any order, the    *)
(* GUI thread takes the signals in the order of their emission.  The files *)
(* exist and parse, so no task raises.  The user presses the load button   *)
(* and works on the rows once the editor has announced the end of the      *)
(* load.                                                                   *)
(***************************************************************************)
\* None, as the value of current_df_index
NoneIdx == -1

\* QSettings holds no LAST_ID_KEY; the IDs of the files are never empty
NoLastId == <<>>

MaxRows == 2

MaxSearches == 2

MaxSaves == 1

IdOf(k) == [j \in 1..k |-> "i"]

\* the ENG file: MaxRows lines of ID and text
EngFile == [k \in 1..MaxRows |-> [ID |-> IdOf(k), ENG |-> IF k % 2 = 1 THEN <<"a">> ELSE <<"b">>]]

\* the RUS file: a machine translation for every odd line of the ENG file
RusFile == [id \in {IdOf(k) : k \in {j \in 1..MaxRows : j % 2 = 1}} |-> <<"m">>]

\* the dictionary file
DictFile == {[Source |-> <<"a">>, Target |-> <<"m">>]}

\* what the user types into the edit box, and into the search box
TypedTexts == {<<>>, <<"m">>, <<"x">>}

SearchTexts == {<<>>, <<" ", "a">>, <<"B">>}

\* the final file before the editor starts: none, or one row saved by an earlier run,
\* with the LAST_ID_KEY that run left.  A header-only file reads as an empty frame,
\* which the editor treats as it treats no file, so <<>> stands for both
FinalFiles == {<<>>, <<[ID |-> IdOf(1), RUS_EDITED |-> <<"x">>]>>}

Indices(d) == [k \in 1..Len(d) |-> k - 1]

\* a task on the pool: its function and arguments; n tells the tasks of one function apart
Task(kind, n, t, by, row) == [kind |-> kind, n |-> n, text |-> t, by |-> by, row |-> row]

Signal(kind, res) == [kind |-> kind, res |-> res]

_load_eng_task ==
    [k \in 1..Len(EngFile) |->
        [ID |-> EngFile[k].ID, ENG |-> EngFile[k].ENG, RUS_MACHINE |-> <<>>,
         RUS_EDITED |-> <<>>, EDITED |-> FALSE]]

_load_dict_task == DictFile

_load_rus_task == RusFile

_load_final_task == final_file

lower(c) == IF c = "A" THEN "a" ELSE IF c = "B" THEN "b" ELSE c

\* Series.str.contains(t, case=False), for a t free of regular-expression syntax
contains(s, t) ==
    \E o \in 0..(Len(s) - Len(t)) : \A k \in 1..Len(t) : lower(s[o + k]) = lower(t[k])

RECURSIVE SelectIdx(_, _, _)
SelectIdx(d, t, k) ==
    IF k > Len(d) THEN <<>>
    ELSE (IF \/ contains(d[k].ID, t) \/ contains(d[k].ENG, t)
             \/ contains(d[k].RUS_MACHINE, t) \/ contains(d[k].RUS_EDITED, t)
          THEN <<k - 1>> ELSE <<>>) \o SelectIdx(d, t, k + 1)

\* str(text).strip() is strip, defined with the scanner
_filter_task(t) ==
    IF df = <<>> THEN <<>>
    ELSE IF strip(t) = <<>> THEN Indices(df)
    ELSE SelectIdx(df, strip(t), 1)

\* the rows _save_final_task writes: ID and RUS_EDITED of the rows with EDITED
RECURSIVE EditedRows(_, _)
EditedRows(d, k) ==
    IF k > Len(d) THEN <<>>
    ELSE (IF d[k].EDITED THEN <<[ID |-> d[k].ID, RUS_EDITED |-> d[k].RUS_EDITED]>> ELSE <<>>)
         \o EditedRows(d, k + 1)

_save_final_task == EditedRows(df, 1)

\* the text update_ui_for_current_row puts into rus_edited_text_edit
update_ui_for_current_row(d, idx) ==
    IF d = <<>> \/ idx = NoneIdx THEN <<>>
    ELSE IF d[idx + 1].RUS_EDITED # <<>> THEN d[idx + 1].RUS_EDITED ELSE d[idx + 1].RUS_MACHINE

\* the position of x in list s, 0 when it is not there
PosIn(s, x) == IF \E k \in 1..Len(s) : s[k] = x THEN CHOOSE k \in 1..Len(s) : s[k] = x /\ \A j \in 1..(k - 1) : s[j] # x ELSE 0

InitEd ==
    /\ ScanIdle /\ AsmIdle /\ CmpIdle /\ TsvIdle
    /\ df = <<>> /\ dict_df = {} /\ eng_file_loaded = FALSE /\ rus_file_loaded = FALSE
    /\ current_df_index = NoneIdx /\ filtered_indices = <<>> /\ model_indices = <<>>
    /\ rus_edited_text = <<>> /\ load_all_button = TRUE
    /\ final_file \in FinalFiles
    /\ last_id = IF final_file = <<>> THEN NoLastId ELSE final_file[Len(final_file)].ID
    /\ pool = {} /\ events = <<>>
    /\ searches = <<>> /\ saves = <<>> /\ announced = FALSE

load_all_data ==
    /\ load_all_button
    /\ load_all_button' = FALSE
    /\ pool' = pool \cup {Task("eng", 1, <<>>, "", NoneIdx)}
    /\ UNCHANGED <<scan_vars, asm_vars, cmp_vars, tsv_vars, df, dict_df, eng_file_loaded,
                   rus_file_loaded, current_df_index, filtered_indices, model_indices,
                   rus_edited_text, last_id, final_file, events, searches, saves, announced>>

\* RunnableTask.run on a pool thread: the task's function, then finished.emit
RunTask(t) ==
    /\ t \in pool
    /\ pool' = pool \ {t}
    /\ events' = Append(events, Signal(t.kind,
            CASE t.kind = "eng" -> _load_eng_task
              [] t.kind = "dict" -> _load_dict_task
              [] t.kind = "rus" -> _load_rus_task
              [] t.kind = "final" -> _load_final_task
              [] t.kind = "filter" -> _filter_task(t.text)
              [] t.kind = "save" -> TRUE))
    /\ IF t.kind = "save"
       THEN /\ final_file' = _save_final_task
            /\ saves' = Append(saves, [by |-> t.by, row |-> t.row,
                                       written |-> {k \in 0..(Len(df) - 1) : df[k + 1].EDITED}])
       ELSE UNCHANGED <<final_file, saves>>
    /\ UNCHANGED <<scan_vars, asm_vars, cmp_vars, tsv_vars, df, dict_df, eng_file_loaded,
                   rus_file_loaded, current_df_index, filtered_indices, model_indices,
                   rus_edited_text, load_all_button, last_id, searches, announced>>

_on_eng_loaded ==
    /\ events # <<>> /\ Head(events).kind = "eng"
    /\ events' = Tail(events)
    /\ df' = Head(events).res
    /\ eng_file_loaded' = TRUE
    /\ pool' = pool \cup {Task("dict", 1, <<>>, "", NoneIdx),
                          Task("rus", 1, <<>>, "", NoneIdx)}
    /\ UNCHANGED <<scan_vars, asm_vars, cmp_vars, tsv_vars, dict_df, rus_file_loaded,
                   current_df_index, filtered_indices, model_indices, rus_edited_text,
                   load_all_button, last_id, final_file, searches, saves, announced>>

_on_dict_loaded ==
    /\ events # <<>> /\ Head(events).kind = "dict"
    /\ events' = Tail(events)
    /\ dict_df' = Head(events).res
    /\ UNCHANGED <<scan_vars, asm_vars, cmp_vars, tsv_vars, df, eng_file_loaded,
                   rus_file_loaded, current_df_index, filtered_indices, model_indices,
                   rus_edited_text, load_all_button, last_id, final_file, pool,
                   searches, saves, announced>>

_on_rus_loaded ==
    /\ events # <<>> /\ Head(events).kind = "rus"
    /\ events' = Tail(events)
    /\ LET mapping_series == Head(events).res
       IN  df' = [k \in 1..Len(df) |->
                    [df[k] EXCEPT !.RUS_MACHINE =
                        IF df[k].ID \in DOMAIN mapping_series THEN mapping_series[df[k].ID]
                        ELSE <<>>]]
    /\ rus_file_loaded' = TRUE
    /\ pool' = pool \cup {Task("final", 1, <<>>, "", NoneIdx)}
    /\ UNCHANGED <<scan_vars, asm_vars, cmp_vars, tsv_vars, dict_df, eng_file_loaded,
                   current_df_index, filtered_indices, model_indices, rus_edited_text,
                   load_all_button, last_id, final_file, searches, saves, announced>>

\* the row index load_progress makes current: the row after the one LAST_ID_KEY names
load_progress(d) ==
    LET matches == {k \in 0..(Len(d) - 1) : d[k + 1].ID = last_id}
    IN  IF last_id # NoLastId /\ matches # {}
        THEN LET idx == (CHOOSE k \in matches : \A j \in matches : k <= j) + 1
             IN  IF idx >= Len(d) THEN 0 ELSE idx
        ELSE 0

\* the finish step of the load
_on_final_loaded ==
    /\ events # <<>> /\ Head(events).kind = "final"
    /\ events' = Tail(events)
    /\ LET df_final == Head(events).res
           InFinal(id) == {k \in 1..Len(df_final) : df_final[k].ID = id}
           Mapped(r) == IF InFinal(r.ID) = {} THEN r.RUS_EDITED
                        ELSE df_final[CHOOSE k \in InFinal(r.ID) :
                                        \A j \in InFinal(r.ID) : j <= k].RUS_EDITED
           merged == IF df_final # <<>>
                     THEN [k \in 1..Len(df) |->
                            [df[k] EXCEPT !.RUS_EDITED = Mapped(df[k]),
                                          !.EDITED = Mapped(df[k]) # <<>>]]
                     ELSE df
       IN  /\ df' = merged
           /\ filtered_indices' = Indices(merged)
           /\ model_indices' = Indices(merged)
           /\ current_df_index' = IF merged = <<>> THEN current_df_index
                                  ELSE load_progress(merged)
           /\ rus_edited_text' = IF merged = <<>> THEN rus_edited_text
                                 ELSE update_ui_for_current_row(merged, load_progress(merged))
    /\ load_all_button' = FALSE
    /\ announced' = TRUE
    /\ UNCHANGED <<scan_vars, asm_vars, cmp_vars, tsv_vars, dict_df, eng_file_loaded,
                   rus_file_loaded, last_id, final_file, pool, searches, saves>>

on_search_text_changed(t) ==
    /\ announced
    /\ Len(searches) < MaxSearches
    /\ t # (IF searches = <<>> THEN <<>> ELSE searches[Len(searches)])
    /\ pool' = pool \cup {Task("filter", Len(searches) + 1, t, "", NoneIdx)}
    /\ searches' = Append(searches, t)
    /\ UNCHANGED <<scan_vars, asm_vars, cmp_vars, tsv_vars, df, dict_df, eng_file_loaded,
                   rus_file_loaded, current_df_index, filtered_indices, model_indices,
                   rus_edited_text, load_all_button, last_id, final_file, events, saves,
                   announced>>

_on_filter_finished ==
    /\ events # <<>> /\ Head(events).kind = "filter"
    /\ events' = Tail(events)
    /\ LET indices == Head(events).res
       IN  /\ filtered_indices' = indices
           /\ model_indices' = indices
           /\ current_df_index' = IF indices # <<>> THEN indices[1] ELSE NoneIdx
           /\ rus_edited_text' =
                update_ui_for_current_row(df, IF indices # <<>> THEN indices[1] ELSE NoneIdx)
    /\ UNCHANGED <<scan_vars, asm_vars, cmp_vars, tsv_vars, df, dict_df, eng_file_loaded,
                   rus_file_loaded, load_all_button, last_id, final_file, pool,
                   searches, saves, announced>>

on_list_view_clicked(list_row) ==
    /\ announced
    /\ 0 <= list_row /\ list_row < Len(model_indices)
    /\ model_indices[list_row + 1] # current_df_index
    /\ current_df_index' = model_indices[list_row + 1]
    /\ rus_edited_text' = update_ui_for_current_row(df, model_indices[list_row + 1])
    /\ UNCHANGED <<scan_vars, asm_vars, cmp_vars, tsv_vars, df, dict_df, eng_file_loaded,
                   rus_file_loaded, filtered_indices, model_indices, load_all_button,
                   last_id, final_file, pool, events, searches, saves, announced>>

\* the user changes the text of the edit box to t
on_rus_edited_changed(t) ==
    /\ announced
    /\ t # rus_edited_text
    /\ rus_edited_text' = t
    /\ IF df = <<>> \/ current_df_index = NoneIdx
       THEN df' = df
       ELSE df' = [df EXCEPT ![current_df_index + 1] =
                    [@ EXCEPT !.RUS_EDITED = t,
                              !.EDITED = (t # df[current_df_index + 1].RUS_MACHINE) /\ (t # <<>>)]]
    /\ UNCHANGED <<scan_vars, asm_vars, cmp_vars, tsv_vars, dict_df, eng_file_loaded,
                   rus_file_loaded, current_df_index, filtered_indices, model_indices,
                   load_all_button, last_id, final_file, pool, events, searches,
                   saves, announced>>

copy_machine_to_edited ==
    /\ announced
    /\ current_df_index # NoneIdx
    /\ df[current_df_index + 1].RUS_EDITED # df[current_df_index + 1].RUS_MACHINE
    /\ rus_edited_text' = df[current_df_index + 1].RUS_MACHINE
    /\ df' = [df EXCEPT ![current_df_index + 1].RUS_EDITED =
                        df[current_df_index + 1].RUS_MACHINE]
    /\ UNCHANGED <<scan_vars, asm_vars, cmp_vars, tsv_vars, dict_df, eng_file_loaded,
                   rus_file_loaded, current_df_index, filtered_indices, model_indices,
                   load_all_button, last_id, final_file, pool, events, searches,
                   saves, announced>>

\* the save tasks started so far
SavesStarted == Len(saves) + Cardinality({t \in pool : t.kind = "save"})

save_and_next ==
    /\ announced
    /\ df # <<>> /\ current_df_index # NoneIdx
    /\ SavesStarted < MaxSaves
    /\ df' = [df EXCEPT ![current_df_index + 1] =
                [@ EXCEPT !.RUS_EDITED = rus_edited_text, !.EDITED = TRUE]]
    /\ last_id' = df[current_df_index + 1].ID
    /\ pool' = pool \cup {Task("save", SavesStarted + 1, <<>>, "save", current_df_index)}
    /\ UNCHANGED <<scan_vars, asm_vars, cmp_vars, tsv_vars, dict_df, eng_file_loaded,
                   rus_file_loaded, current_df_index, filtered_indices, model_indices,
                   rus_edited_text, load_all_button, final_file, events, searches, saves,
                   announced>>

skip_and_next ==
    /\ announced
    /\ df # <<>> /\ current_df_index # NoneIdx
    /\ SavesStarted < MaxSaves
    /\ df' = [df EXCEPT ![current_df_index + 1].RUS_EDITED =
                        df[current_df_index + 1].RUS_MACHINE]
    /\ last_id' = df[current_df_index + 1].ID
    /\ pool' = pool \cup {Task("save", SavesStarted + 1, <<>>, "skip", current_df_index)}
    /\ UNCHANGED <<scan_vars, asm_vars, cmp_vars, tsv_vars, dict_df, eng_file_loaded,
                   rus_file_loaded, current_df_index, filtered_indices, model_indices,
                   rus_edited_text, load_all_button, final_file, events, searches, saves,
                   announced>>

_after_save_next ==
    /\ events # <<>> /\ Head(events).kind = "save"
    /\ events' = Tail(events)
    /\ LET pos == PosIn(filtered_indices, current_df_index)
           nxt == IF filtered_indices = <<>> THEN current_df_index
                  ELSE IF current_df_index = NoneIdx \/ pos = 0 THEN filtered_indices[1]
                  ELSE filtered_indices[(pos % Len(filtered_indices)) + 1]
       IN  /\ current_df_index' = nxt
           /\ rus_edited_text' = IF filtered_indices = <<>> THEN rus_edited_text
                                 ELSE update_ui_for_current_row(df, nxt)
    /\ UNCHANGED <<scan_vars, asm_vars, cmp_vars, tsv_vars, df, dict_df, eng_file_loaded,
                   rus_file_loaded, filtered_indices, model_indices, load_all_button,
                   last_id, final_file, pool, searches, saves, announced>>

NextEd ==
    \/ load_all_data
    \/ \E t \in pool : RunTask(t)
    \/ _on_eng_loaded
    \/ _on_dict_loaded
    \/ _on_rus_loaded
    \/ _on_final_loaded
    \/ \E t \in SearchTexts : on_search_text_changed(t)
    \/ _on_filter_finished
    \/ \E list_row \in 0..(MaxRows - 1) : on_list_view_clicked(list_row)
    \/ \E t \in TypedTexts : on_rus_edited_changed(t)
    \/ copy_machine_to_edited
    \/ save_and_next
    \/ skip_and_next
    \/ _after_save_next

SpecEd == InitEd /\ [][NextEd]_vars

(***************************************************************************)
(* What a text holds, read off the text alone (no scanner state).          *)
(***************************************************************************)
Offsets(t) == 0..(Len(t) - 1)

\* offset p lies in a bracketed span: some '<' at or before p has no '>'
\* between it and p, and a '>' stands at p or later
InSpan(t, p) ==
    \E s \in 0..p :
        /\ CharAt(t, s) = "<"
        /\ \A q \in s..(p - 1) : CharAt(t, q) # ">"
        /\ \E e \in p..(Len(t) - 1) : CharAt(t, e) = ">"

\* a '#' the main pass interprets: outside every span, not the last character
HashAt(t, p) ==
    p + 1 < Len(t) /\ CharAt(t, p) = "#" /\ ~InSpan(t, p)

CloserAt(t, p) == HashAt(t, p) /\ CharAt(t, p + 1) = "E"

\* number of hex digits that follow the '#' at p
HexRunAt(t, p) ==
    Cardinality({n \in 1..(Len(t) - 1 - p) :
                    \A k \in 1..n : CharAt(t, p + k) \in HexDigits})

\* '#' and three or more hex digits, the first of them not the E of a closer
HexCodeAt(t, p) ==
    HashAt(t, p) /\ ~CloserAt(t, p) /\ HexRunAt(t, p) >= MinHexDigits

\* '#', a letter other than the E of a closer, alphanumerics; not a hex code
NamedTagAt(t, p) ==
    HashAt(t, p) /\ ~CloserAt(t, p) /\ ~HexCodeAt(t, p) /\ CharAt(t, p + 1) \in Letters

\* the hex code at p is followed by at least one character and not by '#E'
HexHasPayload(t, p) ==
    LET q == p + 1 + HexRunAt(t, p)
    IN  q < Len(t) /\ ~(q + 1 < Len(t) /\ CharAt(t, q) = "#" /\ CharAt(t, q + 1) = "E")

\* an opening tag at p; with everyHex, every hex code counts as one
OpenerAt(t, p, everyHex) ==
    \/ NamedTagAt(t, p)
    \/ HexCodeAt(t, p) /\ (everyHex \/ HexHasPayload(t, p))

\* openers before offset n that no closer before n has matched
RECURSIVE Unmatched(_, _, _)
Unmatched(t, n, everyHex) ==
    IF n = 0 THEN 0
    ELSE LET d == Unmatched(t, n - 1, everyHex)
         IN  IF CloserAt(t, n - 1) THEN (IF d > 0 THEN d - 1 ELSE 0)
             ELSE IF OpenerAt(t, n - 1, everyHex) THEN d + 1
             ELSE d

AfterMain == pc \in {"links", "braces", "done"}

(***************************************************************************)
(* C1: code 02 is recorded exactly by a main-pass step that stands on a    *)
(* '#E' outside every span while the tag stack is empty; and the main pass *)
(* steps over no '#', so every such '#E' is reached.  At the end, 02 is in *)
(* the result iff some closer outside the spans had no unmatched opener    *)
(* before it.                                                              *)
(***************************************************************************)
C1_ClosingWithoutOpening ==
    [][ /\ (ERROR_CODE_CLOSING_TAG_WITHOUT_OPENING \in errors') <=>
             \/ ERROR_CODE_CLOSING_TAG_WITHOUT_OPENING \in errors
             \/ pc = "main" /\ CloserAt(text, i) /\ tag_stack = <<>>
        /\ pc = "main" => \A p \in (i + 1)..(i' - 1) : CharAt(text, p) # "#"
        /\ pc' = "done" =>
             ((ERROR_CODE_CLOSING_TAG_WITHOUT_OPENING \in errors') <=>
                \E p \in Offsets(text) :
                    CloserAt(text, p) /\ Unmatched(text, p, FALSE) = 0)
      ]_vars

\* a '#E' met with an empty stack after a bare '#': 02 recorded, the stack still empty
C1_Witness ==
    /\ pc = "main" /\ i >= 3
    /\ CloserAt(text, i - 2) /\ HashAt(text, i - 3)
    /\ tag_stack = <<>>
    /\ errors = {ERROR_CODE_CLOSING_TAG_WITHOUT_OPENING}

(***************************************************************************)
(* C2 (amended): once the main pass is over, code 03 is in the result iff  *)
(* the tag stack is non-empty, i.e. iff some opening tag outside the spans *)
(* was never matched by a later '#E', where an opening tag is a named tag  *)
(* or a hex code that is followed by a character and not by '#E'.          *)
(***************************************************************************)
C2_OpeningWithoutClosing ==
    /\ pc \in {"find_links", "main"} => ERROR_CODE_OPENING_TAG_WITHOUT_CLOSING \notin errors
    /\ AfterMain =>
         /\ (ERROR_CODE_OPENING_TAG_WITHOUT_CLOSING \in errors) <=> (tag_stack # <<>>)
         /\ Len(tag_stack) = Unmatched(text, Len(text), FALSE)

\* C2 as claimed: every hex code outside the spans counts as an opening tag
C2_Original ==
    AfterMain =>
        ((ERROR_CODE_OPENING_TAG_WITHOUT_CLOSING \in errors) <=>
            Unmatched(text, Len(text), TRUE) > 0)

\* a hex code with a payload and no closer after it stays open: 03
C2_Witness ==
    /\ pc = "done"
    /\ \E p \in Offsets(text) : HexCodeAt(text, p) /\ HexHasPayload(text, p)
    /\ \A p \in Offsets(text) : ~CloserAt(text, p)
    /\ Len(tag_stack) = 1
    /\ ERROR_CODE_OPENING_TAG_WITHOUT_CLOSING \in errors

(***************************************************************************)
(* C3 (amended): for a text '#', body, '#E' whose body holds none of       *)
(* # < > { } and begins with a letter or with three or more hex digits,    *)
(* scan returns the empty set, unless the body begins with E (the scanner  *)
(* takes '#E' as a closer) or the body is nothing but three or more hex    *)
(* digits (a hex code with '#E' right after it is not pushed); in these    *)
(* two cases scan returns {02}.                                            *)
(***************************************************************************)
Body(t) == SubSeq(t, 2, Len(t) - 2)

\* one opening tag, a payload free of # < > { }, and a closing '#E'
PairedShape(t) ==
    /\ Len(t) >= 4
    /\ t[1] = "#" /\ t[Len(t) - 1] = "#" /\ t[Len(t)] = "E"
    /\ \A k \in 1..Len(Body(t)) : Body(t)[k] \notin {"#", "<", ">", "{", "}"}
    /\ \/ Body(t)[1] \in Letters
       \/ /\ Len(Body(t)) >= MinHexDigits
          /\ \A k \in 1..MinHexDigits : Body(t)[k] \in HexDigits

BodyStartsWithE(t) == Body(t)[1] = "E"

BodyIsHexCode(t) ==
    Len(Body(t)) >= MinHexDigits /\ \A k \in 1..Len(Body(t)) : Body(t)[k] \in HexDigits

C3_PairedTagIsClean ==
    (pc = "done" /\ PairedShape(text)) =>
        IF BodyStartsWithE(text) \/ BodyIsHexCode(text)
        THEN errors = {ERROR_CODE_CLOSING_TAG_WITHOUT_OPENING}
        ELSE errors = {}

\* C3 as claimed: every such text scans clean
C3_Original == (pc = "done" /\ PairedShape(text)) => errors = {}

\* a hex code, a payload and the closer, scanned clean
C3_Witness ==
    /\ pc = "done" /\ PairedShape(text)
    /\ HexCodeAt(text, 0) /\ ~BodyIsHexCode(text)
    /\ errors = {}

(***************************************************************************)
(* C4 (amended): a main-pass step that stands on a hex code outside the    *)
(* spans (first digit not the E of a closer) advances past the maximal hex *)
(* run, and pushes (offset, code) on the tag stack iff the code is         *)
(* followed by at least one character and not by '#E'; otherwise the stack *)
(* is left as it is.                                                       *)
(***************************************************************************)
C4_HexCodePushed ==
    [][ (pc = "main" /\ HexCodeAt(text, i)) =>
          /\ i' = i + 1 + HexRunAt(text, i)
          /\ errors' = errors
          /\ IF HexHasPayload(text, i)
             THEN tag_stack' = Append(tag_stack, <<i, SubSeq(text, i + 1, i + 1 + HexRunAt(text, i))>>)
             ELSE tag_stack' = tag_stack
      ]_vars

\* C4 as claimed: the hex code is pushed whatever follows it
C4_Original ==
    [][ (pc = "main" /\ HexCodeAt(text, i)) => Len(tag_stack') = Len(tag_stack) + 1 ]_vars

\* a hex code directly before '#E' was stepped over without a push
C4_Witness ==
    /\ pc = "main" /\ i >= 4
    /\ \E p \in 0..(i - 1) :
          HexCodeAt(text, p) /\ i = p + 1 + HexRunAt(text, p) /\ ~HexHasPayload(text, p)
    /\ CloserAt(text, i)
    /\ tag_stack = <<>>

(***************************************************************************)
(* The bracketed spans of a text, read off the text alone: a span starts   *)
(* at a '<' that no earlier '<' still holds open and ends at the first '>' *)
(* after it.  Pairs (offset of '<', offset of '>').                        *)
(***************************************************************************)
Spans(t) ==
    {se \in Offsets(t) \X Offsets(t) :
        /\ se[1] < se[2]
        /\ CharAt(t, se[1]) = "<" /\ CharAt(t, se[2]) = ">"
        /\ \A q \in (se[1] + 1)..(se[2] - 1) : CharAt(t, q) # ">"
        /\ \A s0 \in 0..(se[1] - 1) :
              CharAt(t, s0) = "<" => \E q \in (s0 + 1)..(se[1] - 1) : CharAt(t, q) = ">"}

Content(t, se) == SubSeq(t, se[1] + 2, se[2])

Pipes(c) == Cardinality({k \in 1..Len(c) : c[k] = "|"})

\* the first character of the content that is not whitespace is uppercase or '/'
LedByUpperOrSlash(c) ==
    \E k \in 1..Len(c) :
        /\ c[k] \in UpperOrSlash
        /\ \A j \in 1..(k - 1) : c[j] \in Whitespace

\* a pipe, and a number of parts other than 4 or 5
BadPartCount(c) == Pipes(c) >= 1 /\ Pipes(c) + 1 \notin {4, 5}

(***************************************************************************)
(* C5 (amended): scan reports LINK_TAG_INVALID iff some span has content   *)
(* that holds a pipe, splits on the pipe into a number of parts other than *)
(* 4 or 5, and does not start, after trimming, with an uppercase ASCII     *)
(* letter or '/'.  So '<a|b|c>' has code 04 and '<A|B|C>' has not.         *)
(***************************************************************************)
C5_LinkPartCount ==
    /\ pc \in {"find_links", "main", "links"} => ERROR_CODE_LINK_TAG_INVALID \notin errors
    /\ pc \in {"braces", "done"} =>
         ((ERROR_CODE_LINK_TAG_INVALID \in errors) <=>
            \E se \in Spans(text) :
                BadPartCount(Content(text, se)) /\ ~LedByUpperOrSlash(Content(text, se)))

\* C5 as claimed: every span with a pipe and a bad part count is reported
C5_Original ==
    pc = "done" =>
        \A se \in Spans(text) :
            BadPartCount(Content(text, se)) => ERROR_CODE_LINK_TAG_INVALID \in errors

\* a lowercase-led span of three parts, reported
C5_Witness ==
    /\ pc = "done"
    /\ \E se \in Spans(text) :
          /\ Pipes(Content(text, se)) = 2
          /\ Content(text, se)[1] = "f"
    /\ errors = {ERROR_CODE_LINK_TAG_INVALID}

(***************************************************************************)
(* C6: when every span of the text either starts, after trimming, with an  *)
(* uppercase ASCII letter or '/', or holds no pipe, LINK_TAG_INVALID is    *)
(* not in the result.                                                      *)
(***************************************************************************)
C6_HtmlLikeOrPlainSpan ==
    (pc = "done" /\
        \A se \in Spans(text) :
            LedByUpperOrSlash(Content(text, se)) \/ Pipes(Content(text, se)) = 0)
    => ERROR_CODE_LINK_TAG_INVALID \notin errors

\* a span led by blanks and an uppercase letter, with a bad part count, not reported
C6_Witness ==
    /\ pc = "done"
    /\ \E se \in Spans(text) :
          /\ BadPartCount(Content(text, se))
          /\ Content(text, se)[1] \in Whitespace
          /\ LedByUpperOrSlash(Content(text, se))
    /\ errors = {}

(***************************************************************************)
(* C7: RUSSIAN_AFTER_HASH is in the result iff some '#' outside every span *)
(* is immediately followed by a Cyrillic character.                        *)
(***************************************************************************)
C7_RussianAfterHash ==
    pc = "done" =>
        ((ERROR_CODE_RUSSIAN_AFTER_HASH \in errors) <=>
            \E p \in Offsets(text) : HashAt(text, p) /\ CharAt(text, p + 1) \in Cyrillic)

\* a '#' before a Cyrillic letter, outside the span the text also holds: 01 alone
C7_Witness ==
    /\ pc = "done"
    /\ \E p \in Offsets(text) : HashAt(text, p) /\ CharAt(text, p + 1) \in Cyrillic
    /\ \E p \in Offsets(text) : InSpan(text, p)
    /\ errors = {ERROR_CODE_RUSSIAN_AFTER_HASH}

(***************************************************************************)
(* C8 (amended): for a text made of '#', one or more Cyrillic letters and  *)
(* '#E', scan returns exactly {RUSSIAN_AFTER_HASH,                         *)
(* CLOSING_TAG_WITHOUT_OPENING}: the '#E' finds the tag stack empty.       *)
(***************************************************************************)
CyrillicTag(t) ==
    /\ Len(t) >= 4
    /\ t[1] = "#" /\ t[Len(t) - 1] = "#" /\ t[Len(t)] = "E"
    /\ \A k \in 1..Len(Body(t)) : Body(t)[k] \in Cyrillic

C8_CyrillicTagCodes ==
    (pc = "done" /\ CyrillicTag(text)) =>
        errors = {ERROR_CODE_RUSSIAN_AFTER_HASH, ERROR_CODE_CLOSING_TAG_WITHOUT_OPENING}

\* C8 as claimed: exactly {RUSSIAN_AFTER_HASH}
C8_Original ==
    (pc = "done" /\ CyrillicTag(text)) => errors = {ERROR_CODE_RUSSIAN_AFTER_HASH}

C8_Witness ==
    /\ pc = "done" /\ CyrillicTag(text) /\ Len(text) >= 5
    /\ errors = {ERROR_CODE_RUSSIAN_AFTER_HASH, ERROR_CODE_CLOSING_TAG_WITHOUT_OPENING}

(***************************************************************************)
(* C9: a main-pass step at an offset inside a span moves on by one         *)
(* character and changes neither the tag stack nor the recorded codes.     *)
(***************************************************************************)
C9_SpanSkipped ==
    [][ (pc = "main" /\ i < Len(text) /\ InSpan(text, i)) =>
          /\ i' = i + 1
          /\ tag_stack' = tag_stack
          /\ errors' = errors
          /\ pc' = "main"
      ]_vars

\* a closer, a named tag and a '#' before Cyrillic, each inside a span: nothing recorded
C9_Witness ==
    /\ pc = "links"
    /\ \E p \in Offsets(text) :
          /\ InSpan(text, p) /\ CharAt(text, p) = "#"
          /\ p + 1 < Len(text) /\ CharAt(text, p + 1) \in {"E", "G", CYR}
    /\ Cardinality(Spans(text)) = 2
    /\ tag_stack = <<>>
    /\ errors = {}

(***************************************************************************)
(* C10 (amended): the LinkRanges of the pre-pass are exactly the spans     *)
(* that start at the first '<' not inside an earlier span and end at the   *)
(* first '>' after it; a '<' may lie strictly inside a span, and markup    *)
(* between the two '<' characters is inside the span, skipped by the main  *)
(* pass.                                                                   *)
(***************************************************************************)
C10_LinkRanges ==
    pc # "find_links" =>
        /\ {<<link_ranges[k][1], link_ranges[k][2] - 1>> : k \in 1..Len(link_ranges)}
              = Spans(text)
        /\ Len(link_ranges) = Cardinality(Spans(text))
        /\ \A k \in 1..(Len(link_ranges) - 1) : link_ranges[k][2] <= link_ranges[k + 1][1]

\* C10 as claimed: no '<' strictly inside a LinkRange
C10_Original ==
    \A k \in 1..Len(link_ranges) :
        \A p \in (link_ranges[k][1] + 1)..(link_ranges[k][2] - 2) : CharAt(text, p) # "<"

\* a named tag between two '<' lies in the one span and is skipped: no code 03
C10_Witness ==
    /\ pc = "done"
    /\ Len(link_ranges) = 1
    /\ \E p \in (link_ranges[1][1] + 3)..(link_ranges[1][2] - 2) :
          /\ CharAt(text, p) = "<"
          /\ CharAt(text, link_ranges[1][1] + 1) = "#"
          /\ CharAt(text, link_ranges[1][1] + 2) = "G"
    /\ errors = {}

(***************************************************************************)
(* Braces, read off the text alone.                                        *)
(***************************************************************************)
\* number of c at the offsets a .. b-1
CountIn(t, c, a, b) == Cardinality({p \in a..(b - 1) : CharAt(t, p) = c})

\* '{' minus '}' over the offsets a .. b-1
Net(t, a, b) == CountIn(t, "{", a, b) - CountIn(t, "}", a, b)

\* some prefix of the text holds more '}' than '{'
ClosesTooMany(t) == \E n \in 1..Len(t) : Net(t, 0, n) < 0

\* the '{' at p has no later '}' matched to it
UnmatchedOpen(t, p) ==
    /\ CharAt(t, p) = "{"
    /\ \A q \in (p + 1)..(Len(t) - 1) : Net(t, p + 1, q + 1) >= 0

BraceCodes ==
    {ERROR_CODE_UNBALANCED_BRACES, ERROR_CODE_CLOSING_BRACE_WITHOUT_OPENING,
     ERROR_CODE_OPENING_BRACE_WITHOUT_CLOSING}

\* the brace codes a text calls for
BraceCodesOf(t) ==
    (IF Net(t, 0, Len(t)) # 0 THEN {ERROR_CODE_UNBALANCED_BRACES} ELSE {})
    \cup (IF ClosesTooMany(t) THEN {ERROR_CODE_CLOSING_BRACE_WITHOUT_OPENING} ELSE {})
    \cup (IF \E p \in Offsets(t) : UnmatchedOpen(t, p)
          THEN {ERROR_CODE_OPENING_BRACE_WITHOUT_CLOSING} ELSE {})

\* the text with every character inside a span blanked
MaskSpans(t) == [k \in 1..Len(t) |-> IF InSpan(t, k - 1) THEN " " ELSE t[k]]

(***************************************************************************)
(* C11: UNBALANCED_BRACES is in the result iff the text holds a different  *)
(* number of '{' than of '}'; it is recorded by brace validation only.     *)
(***************************************************************************)
C11_UnbalancedBraces ==
    /\ pc # "done" => ERROR_CODE_UNBALANCED_BRACES \notin errors
    /\ pc = "done" =>
         ((ERROR_CODE_UNBALANCED_BRACES \in errors) <=> Net(text, 0, Len(text)) # 0)

\* more '}' than '{', both present: 05
C11_Witness ==
    /\ pc = "done"
    /\ CountIn(text, "{", 0, Len(text)) = 1
    /\ CountIn(text, "}", 0, Len(text)) = 2
    /\ ERROR_CODE_UNBALANCED_BRACES \in errors

(***************************************************************************)
(* C12: CLOSING_BRACE_WITHOUT_OPENING is in the result iff some prefix of  *)
(* the text holds more '}' than '{', i.e. some '}' is met while the brace  *)
(* stack is empty; such a '}' leaves the brace stack empty.                *)
(***************************************************************************)
C12_ClosingBraceWithoutOpening ==
    pc = "done" =>
        /\ (ERROR_CODE_CLOSING_BRACE_WITHOUT_OPENING \in errors) <=> ClosesTooMany(text)
        /\ ClosesTooMany(text) <=>
             \E p \in Offsets(text) :
                 CharAt(text, p) = "}" /\ BraceStackAt(text, p) = <<>>
        /\ \A p \in Offsets(text) :
             (CharAt(text, p) = "}" /\ BraceStackAt(text, p) = <<>>)
                => BraceStackAt(text, p + 1) = <<>>

\* '}' before '{': equal counts, yet 06 (and 07 for the '{' left open)
C12_Witness ==
    /\ pc = "done"
    /\ Net(text, 0, Len(text)) = 0
    /\ errors = {ERROR_CODE_CLOSING_BRACE_WITHOUT_OPENING,
                 ERROR_CODE_OPENING_BRACE_WITHOUT_CLOSING}

(***************************************************************************)
(* C13: OPENING_BRACE_WITHOUT_CLOSING is in the result iff the brace stack *)
(* is non-empty at the end of the text; the stack then holds the offsets   *)
(* of the '{' that no later '}' is matched to.                             *)
(***************************************************************************)
C13_OpeningBraceWithoutClosing ==
    pc = "done" =>
        /\ (ERROR_CODE_OPENING_BRACE_WITHOUT_CLOSING \in errors) <=> (brace_stack # <<>>)
        /\ {brace_stack[k] : k \in 1..Len(brace_stack)}
              = {p \in Offsets(text) : UnmatchedOpen(text, p)}
        /\ \A k \in 1..(Len(brace_stack) - 1) : brace_stack[k] < brace_stack[k + 1]

\* two '{' and one '}': the first '{' stays on the stack, 07
C13_Witness ==
    /\ pc = "done"
    /\ brace_stack = <<0>>
    /\ CountIn(text, "}", 0, Len(text)) = 1
    /\ ERROR_CODE_OPENING_BRACE_WITHOUT_CLOSING \in errors

(***************************************************************************)
(* C14 (amended): brace validation runs over the whole text: a '{' or '}'  *)
(* inside a span counts for UNBALANCED_BRACES,                             *)
(* CLOSING_BRACE_WITHOUT_OPENING and OPENING_BRACE_WITHOUT_CLOSING exactly *)
(* as one outside does.                                                    *)
(***************************************************************************)
C14_BracesInsideSpans ==
    pc = "done" => errors \cap BraceCodes = BraceCodesOf(text)

\* C14 as claimed: the braces inside the spans contribute to no brace code
C14_Original ==
    pc = "done" => errors \cap BraceCodes = BraceCodesOf(MaskSpans(text))

\* a lone '{' inside a span: 05 and 07
C14_Witness ==
    /\ pc = "done"
    /\ \E p \in Offsets(text) : CharAt(text, p) = "{" /\ InSpan(text, p)
    /\ \A p \in Offsets(text) : CharAt(text, p) \in {"{", "}"} => InSpan(text, p)
    /\ errors = {ERROR_CODE_UNBALANCED_BRACES, ERROR_CODE_OPENING_BRACE_WITHOUT_CLOSING}

(***************************************************************************)
(* Records, read off the file alone.                                       *)
(***************************************************************************)
\* the numbers of the lines after the header
LineNums == 2..Len(lines)

\* line n without its line terminator
LineOf(n) ==
    IF lines[n] # <<>> /\ lines[n][Len(lines[n])] = NL
    THEN SubSeq(lines[n], 1, Len(lines[n]) - 1)
    ELSE lines[n]

\* line n begins with exactly 16 hex characters immediately followed by a tab
StartsRecord(n) ==
    /\ RunLen(LineOf(n), 0, HexDigits) = IdLen
    /\ IdLen < Len(LineOf(n))
    /\ CharAt(LineOf(n), IdLen) = TAB

StartLines == {n \in LineNums : StartsRecord(n)}

\* line n is empty or holds whitespace only
BlankLine(n) == \A k \in 1..Len(LineOf(n)) : LineOf(n)[k] \in {" ", TAB}

\* the lines of the record that starts at line s: s and the non-blank lines
\* before the next record start
RecordLines(s) ==
    {n \in s..Len(lines) : ~BlankLine(n) /\ \A m \in (s + 1)..n : ~StartsRecord(m)}

\* what follows the tab of the start line s
Payload(s) == SubSeq(LineOf(s), IdLen + 2, Len(LineOf(s)))

\* the continuation lines of the record of s from line n on, a newline before each
RECURSIVE Continued(_, _)
Continued(s, n) ==
    IF n > Len(lines) THEN <<>>
    ELSE (IF n \in RecordLines(s) THEN <<NL>> \o LineOf(n) ELSE <<>>) \o Continued(s, n + 1)

\* p0, c1, ..., cn joined by newlines
RecordText(s) == Payload(s) \o Continued(s, s + 1)

\* the start lines of the records opened so far
Started ==
    {validated[k].start_line : k \in 1..Len(validated)}
        \cup (IF entry_start_line # 0 THEN {entry_start_line} ELSE {})

(***************************************************************************)
(* C15: a line after the header starts a record iff it begins with exactly *)
(* 16 hex characters immediately followed by a tab: the records opened so  *)
(* far are those of the lines of that shape among the lines taken.         *)
(***************************************************************************)
C15_RecordStart ==
    asm_pc # "idle" => Started = {n \in StartLines : n < line_num}

\* lines with 15 and with 17 hex characters before the tab were taken as the
\* continuation of a record
C15_Witness ==
    /\ asm_pc = "done"
    /\ Len(validated) = 1
    /\ \E n \in LineNums :
          /\ RunLen(LineOf(n), 0, HexDigits) > IdLen
          /\ n \in {validated[1].line_nums[k] : k \in 2..Len(validated[1].line_nums)}
    /\ \E n \in LineNums :
          /\ RunLen(LineOf(n), 0, HexDigits) = IdLen - 1
          /\ Len(LineOf(n)) >= IdLen
          /\ CharAt(LineOf(n), IdLen - 1) = TAB
          /\ n \in {validated[1].line_nums[k] : k \in 2..Len(validated[1].line_nums)}

(***************************************************************************)
(* C16: a record start line K TAB p0 with n non-blank continuation lines   *)
(* c1..cn yields exactly one record, with id K and the text p0, c1, ...,   *)
(* cn joined by newlines, without the line terminator of the last line.    *)
(***************************************************************************)
C16_RecordText ==
    asm_pc = "done" =>
        /\ Len(validated) = Cardinality(StartLines)
        /\ \A s \in StartLines :
             \E k \in 1..Len(validated) :
                 /\ validated[k].start_line = s
                 /\ validated[k].id = SubSeq(LineOf(s), 1, IdLen)
                 /\ validated[k].text = RecordText(s)
                 /\ \A j \in 1..Len(validated) : validated[j].start_line = s => j = k

\* a record of a start line and two continuation lines, the last of them ending
\* with a newline
C16_Witness ==
    /\ asm_pc = "done"
    /\ \E k \in 1..Len(validated) :
          /\ Len(validated[k].line_nums) = 3
          /\ Count(validated[k].text, NL) = 2
          /\ validated[k].line_nums[3] = Len(lines)
          /\ lines[Len(lines)][Len(lines[Len(lines)])] = NL
          /\ validated[k].text[Len(validated[k].text)] # NL

(***************************************************************************)
(* C17: a blank line changes nothing in the state of the assembler: the    *)
(* open record stays open, nothing is validated and nothing is added to    *)
(* the record's lines; only the line counter moves on.                     *)
(***************************************************************************)
C17_BlankLine ==
    [][(AtLine /\ BlankLine(line_num)) =>
          /\ line_num' = line_num + 1
          /\ UNCHANGED <<current_entry_lines, entry_line_nums, entry_start_line,
                         current_id, errors_by_id, validated, scans, asm_pc, scan_vars>>]_vars

\* a record holds the line before and the line after a blank line
C17_Witness ==
    /\ asm_pc = "done"
    /\ \E k \in 1..Len(validated) :
          \E j \in 1..(Len(validated[k].line_nums) - 1) :
              /\ validated[k].line_nums[j + 1] = validated[k].line_nums[j] + 2
              /\ BlankLine(validated[k].line_nums[j] + 1)

(***************************************************************************)
(* C18: every record opened by a record start line is validated exactly    *)
(* once, when the next record start line is read or at the end of the      *)
(* file; the records are validated in file order and no line belongs to    *)
(* two records.                                                            *)
(***************************************************************************)
C18_FlushedInv ==
    /\ \A j, k \in 1..Len(validated) :
          j < k => /\ validated[j].start_line < validated[k].start_line
                   /\ \A a \in 1..Len(validated[j].line_nums) :
                      \A b \in 1..Len(validated[k].line_nums) :
                          validated[j].line_nums[a] # validated[k].line_nums[b]
    /\ asm_pc = "loop" /\ entry_start_line # 0 =>
          \A k \in 1..Len(validated) : validated[k].start_line # entry_start_line
    /\ asm_pc = "done" =>
          {validated[k].start_line : k \in 1..Len(validated)} = StartLines

C18_FlushedStep ==
    validated' # validated =>
        /\ Len(validated') = Len(validated) + 1
        /\ SubSeq(validated', 1, Len(validated)) = validated
        /\ validated'[Len(validated')].start_line = entry_start_line
        /\ validated'[Len(validated')].line_nums = entry_line_nums
        /\ asm_pc = "loop"
        /\ \/ line_num <= Len(lines) /\ StartsRecord(line_num)
           \/ line_num > Len(lines)

C18_FlushedOnce == [](asm_pc # "idle" => C18_FlushedInv) /\ [][C18_FlushedStep]_vars

\* two records, the first validated at the start line of the second, the second
\* at the end of the file
C18_Witness ==
    /\ asm_pc = "done"
    /\ Len(validated) = 2
    /\ Len(validated[1].line_nums) = 2

(***************************************************************************)
(* C19: every id with codes in the primary (RU) map or in the reference    *)
(* (EN) map gets exactly one classification: Both when both maps hold      *)
(* codes for it, ReferenceOnly when only the reference map does,           *)
(* PrimaryOnly when only the primary map does; no other id gets one.       *)
(***************************************************************************)
HasCodes(d, id) == id \in DOMAIN d /\ d[id] # {}

Both == "[RU\\EN]"
ReferenceOnly == "[EN]"
PrimaryOnly == "[RU]"

\* the classification an id calls for
ClassOf(id) ==
    IF HasCodes(ru_errors, id) /\ HasCodes(en_errors, id) THEN Both
    ELSE IF HasCodes(en_errors, id) THEN ReferenceOnly
    ELSE PrimaryOnly

C19_OneClassification ==
    cmp_pc = "done" =>
        /\ \A id \in Ids :
             (HasCodes(ru_errors, id) \/ HasCodes(en_errors, id)) =>
                 /\ Cardinality({k \in 1..Len(labels) : labels[k][1] = id}) = 1
                 /\ \A k \in 1..Len(labels) : labels[k][1] = id => labels[k][2] = ClassOf(id)
        /\ \A k \in 1..Len(labels) :
             HasCodes(ru_errors, labels[k][1]) \/ HasCodes(en_errors, labels[k][1])

\* three ids, one of each classification
C19_Witness ==
    /\ cmp_pc = "done"
    /\ {labels[k][2] : k \in 1..Len(labels)} = {Both, ReferenceOnly, PrimaryOnly}
    /\ exit_code = 1

(***************************************************************************)
(* C20: the scan is total.  Every iteration of the main pass moves i       *)
(* strictly forward and never past the end of the text, in every iteration *)
(* some branch applies and at the end of the text the pass is left, the    *)
(* passes follow one another in a fixed order, and the result is a subset  *)
(* of the seven codes.                                                     *)
(***************************************************************************)
AllCodes ==
    {ERROR_CODE_RUSSIAN_AFTER_HASH, ERROR_CODE_CLOSING_TAG_WITHOUT_OPENING,
     ERROR_CODE_OPENING_TAG_WITHOUT_CLOSING, ERROR_CODE_LINK_TAG_INVALID,
     ERROR_CODE_UNBALANCED_BRACES, ERROR_CODE_CLOSING_BRACE_WITHOUT_OPENING,
     ERROR_CODE_OPENING_BRACE_WITHOUT_CLOSING}

\* the place of a pass in the order of the function body
Rank(p) ==
    CASE p = "find_links" -> 0
      [] p = "main" -> 1
      [] p = "links" -> 2
      [] p = "braces" -> 3
      [] p = "done" -> 4

C20_ScanInv ==
    /\ pc \in {"find_links", "main", "links", "braces", "done"}
    /\ errors \subseteq AllCodes
    /\ 0 <= i /\ i <= Len(text)
    /\ (pc = "main" /\ i < Len(text)) =>
          ENABLED (SkipInsideLink \/ ClosingTag \/ HexCode \/ LetterTag
                      \/ RussianAfterHash \/ PlainChar)
    /\ (pc = "main" /\ ~(i < Len(text))) => ENABLED EndMainPass

C20_ScanStep ==
    /\ (pc = "main" /\ i < Len(text)) => (i < i' /\ i' <= Len(text) /\ pc' = "main")
    /\ ~(pc = "main" /\ i < Len(text)) => (Rank(pc') = Rank(pc) + 1 /\ i' = i)
    /\ text' = text

C20_ScanTotal == []C20_ScanInv /\ [][C20_ScanStep]_vars

\* a scan that went through every pass to the end of a text and found three codes
C20_Witness ==
    /\ pc = "done"
    /\ i = Len(text)
    /\ Len(text) >= 4
    /\ Cardinality(errors) >= 3

(***************************************************************************)
(* C21: the scan is deterministic and keeps no state between calls: two    *)
(* calls on the same text add the same codes, whatever was scanned in      *)
(* between; every call starts from empty stacks and an empty set of codes, *)
(* and the text handed to a call is never changed.                         *)
(***************************************************************************)
C21_ScanInv ==
    /\ \A j, k \in 1..Len(scans) :
          scans[j].text = scans[k].text => scans[j].codes = scans[k].codes
    /\ \A k \in 1..Len(scans) : scans[k].text = validated[k].text
    /\ pc = "find_links" =>
          /\ link_ranges = <<>> /\ i = 0 /\ tag_stack = <<>>
          /\ errors = {} /\ brace_stack = <<>>
          /\ text = validated[Len(validated)].text

C21_ScanStep == pc \in {"find_links", "main", "links", "braces"} => text' = text

C21_Deterministic == [](asm_pc # "idle" => C21_ScanInv) /\ [][C21_ScanStep]_vars

\* the same text scanned first and third, another text in between, codes each time
C21_Witness ==
    /\ asm_pc = "done"
    /\ Len(scans) = 3
    /\ scans[1].text = scans[3].text
    /\ scans[1].text # scans[2].text
    /\ scans[1].codes # {} /\ scans[2].codes # {}
    /\ scans[1].codes # scans[2].codes

(***************************************************************************)
(* C22 (amended): no line of a record's text after the first begins with   *)
(* the record start pattern, since every line appended to a record failed  *)
(* the record start match; inside a line the pattern may occur, as in a    *)
(* continuation line of 17 hex characters and a tab.                       *)
(***************************************************************************)
\* 16 hex characters and a tab at offset p of t
PatternAt(t, p) ==
    /\ p + IdLen < Len(t)
    /\ \A q \in p..(p + IdLen - 1) : CharAt(t, q) \in HexDigits
    /\ CharAt(t, p + IdLen) = TAB

C22_NoStartInsideRecord ==
    asm_pc # "idle" =>
        \A k \in 1..Len(validated) :
            /\ \A p \in 1..(Len(validated[k].text) - 1) :
                  CharAt(validated[k].text, p - 1) = NL => ~PatternAt(validated[k].text, p)
            /\ \A j \in 2..Len(validated[k].line_nums) :
                  ~StartsRecord(validated[k].line_nums[j])

\* C22 as claimed: the pattern occurs nowhere in the text of a record
C22_Original ==
    asm_pc # "idle" =>
        \A k \in 1..Len(validated) :
            \A p \in 0..(Len(validated[k].text) - 1) : ~PatternAt(validated[k].text, p)

\* a record continued by a line of 17 hex characters and a tab: its last 16 hex
\* characters and the tab stand inside the text
C22_Witness ==
    /\ asm_pc = "done"
    /\ \E k \in 1..Len(validated) :
          /\ Len(validated[k].line_nums) >= 2
          /\ \E p \in 1..(Len(validated[k].text) - 1) :
                /\ PatternAt(validated[k].text, p)
                /\ CharAt(validated[k].text, p - 1) \in HexDigits

\* no blank line cuts the record that starts at line s
Unbroken(s) ==
    \A n \in s..Len(lines) : BlankLine(n) => \E m \in (s + 1)..n : StartsRecord(m)

(***************************************************************************)
(* C23: validate_tsv reports an error and returns is_valid = False for     *)
(* every record whose text after the first tab holds a further tab, a tab  *)
(* on a continuation line included: such a file is never valid, every      *)
(* record no blank line cuts is handed to _validate_entry with its whole   *)
(* text, and every call whose text holds a tab reports the extra tab under *)
(* the start line of the record.                                           *)
(***************************************************************************)
C23_ExtraTab ==
    tsv_pc = "done" =>
        /\ \A s \in StartLines : Count(RecordText(s), TAB) > 0 =>
               ~is_valid /\ tsv_errors # <<>>
        /\ \A s \in StartLines : Unbroken(s) =>
               \E k \in 1..Len(validated) :
                   validated[k].start_line = s /\ validated[k].text = RecordText(s)
        /\ \A k \in 1..Len(validated) : Count(validated[k].text, TAB) > 0 =>
               \E e \in 1..Len(tsv_errors) :
                   tsv_errors[e] = <<"extra_tabs", validated[k].start_line>>

\* a file with a sound header and one record, whose only defect is the tab of
\* its continuation line
C23_Witness ==
    /\ tsv_pc = "done"
    /\ StartLines = {2}
    /\ Len(validated) = 1
    /\ Len(validated[1].line_nums) >= 2
    /\ Count(Payload(2), TAB) = 0
    /\ Count(RecordText(2), TAB) > 0
    /\ tsv_errors = <<<<"extra_tabs", 2>>>>
    /\ ~is_valid

\* the scanner stands on a '#' outside the spans that an 'E' follows
AtCloser ==
    /\ pc = "main" /\ i < Len(text)
    /\ ~is_inside_link_tag(i)
    /\ CharAt(text, i) = "#"
    /\ i + 1 < Len(text) /\ CharAt(text, i + 1) = "E"

(***************************************************************************)
(* C24: the closer test comes first.  On a '#' outside the spans that an   *)
(* 'E' follows, the step pops the tag stack, or records 02 when the stack  *)
(* is empty, and advances by exactly 2, whatever follows the 'E'; so no    *)
(* tag that begins with '#E' is ever pushed, and the named-tag branch      *)
(* never holds the tag '#E'.                                               *)
(***************************************************************************)
C24_CloserStep ==
    AtCloser =>
        /\ i' = i + 2
        /\ pc' = "main"
        /\ IF tag_stack # <<>>
           THEN tag_stack' = SubSeq(tag_stack, 1, Len(tag_stack) - 1) /\ errors' = errors
           ELSE tag_stack' = <<>>
                /\ errors' = errors \cup {ERROR_CODE_CLOSING_TAG_WITHOUT_OPENING}

C24_NoCloserPushed ==
    /\ \A k \in 1..Len(tag_stack) : Slice(tag_stack[k][2], 0, 2) # <<"#", "E">>
    /\ (pc = "main" /\ i < Len(text) /\ ~is_inside_link_tag(i) /\ AtHash
          /\ Slice(text, i, i + 2) # <<"#", "E">> /\ hex_match(text, i) = 0
          /\ letter_match(text, i) > 0)
       => Slice(text, i, i + letter_match(text, i)) # <<"#", "E">>

C24_CloserFirst == []C24_NoCloserPushed /\ [][C24_CloserStep]_vars

\* the scanner has just passed the '#E' of '#E' followed by two hex digits, which
\* reads as a hex code too, and recorded 02 for it
C24_Witness ==
    /\ pc = "main" /\ i >= 2 /\ i + 1 < Len(text)
    /\ link_ranges = <<>>
    /\ Slice(text, i - 2, i) = <<"#", "E">>
    /\ hex_match(text, i - 2) >= 4
    /\ tag_stack = <<>>
    /\ errors = {ERROR_CODE_CLOSING_TAG_WITHOUT_OPENING}

\* no span can begin in t
LinkFree(t) == Count(t, "<") = 0

\* lines 140-190 as a function: the codes the main pass records from offset p on,
\* entered with d tags on the stack, in a text without spans
RECURSIVE MainPass(_, _, _)
MainPass(t, p, d) ==
    IF p >= Len(t)
    THEN IF d > 0 THEN {ERROR_CODE_OPENING_TAG_WITHOUT_CLOSING} ELSE {}
    ELSE IF CharAt(t, p) = "#" /\ p + 1 < Len(t)
    THEN IF CharAt(t, p + 1) = "E"
         THEN IF d > 0
              THEN MainPass(t, p + 2, d - 1)
              ELSE {ERROR_CODE_CLOSING_TAG_WITHOUT_OPENING} \cup MainPass(t, p + 2, 0)
         ELSE IF hex_match(t, p) > 0
         THEN MainPass(t, p + hex_match(t, p),
                       IF /\ p + hex_match(t, p) < Len(t)
                          /\ Slice(t, p + hex_match(t, p), p + hex_match(t, p) + 2)
                                 # <<"#", "E">>
                       THEN d + 1 ELSE d)
         ELSE IF letter_match(t, p) > 0
         THEN MainPass(t, p + letter_match(t, p), d + 1)
         ELSE IF CharAt(t, p + 1) \in Cyrillic
         THEN {ERROR_CODE_RUSSIAN_AFTER_HASH} \cup MainPass(t, p + 1, d)
         ELSE MainPass(t, p + 1, d)
    ELSE MainPass(t, p + 1, d)

TagCodes ==
    {ERROR_CODE_RUSSIAN_AFTER_HASH, ERROR_CODE_CLOSING_TAG_WITHOUT_OPENING,
     ERROR_CODE_OPENING_TAG_WITHOUT_CLOSING}

\* a closer met with an empty tag stack
AtOrphan == AtCloser /\ tag_stack = <<>>

(***************************************************************************)
(* C25: an anomaly neither stops nor corrupts the scan.  A closer met with *)
(* an empty tag stack records 02, leaves the stack empty and the pass goes *)
(* on behind it; no step loses a recorded code; and in a text without      *)
(* spans the pass ends with the codes recorded before the orphan, 02, and  *)
(* the codes the rest of the text has when scanned on its own, so a later  *)
(* pair is matched and later anomalies are recorded as without the orphan. *)
(***************************************************************************)
C25_OrphanInv ==
    /\ (pc = "main" /\ LinkFree(text)) =>
           errors \cup MainPass(text, i, Len(tag_stack)) = MainPass(text, 0, 0)
    /\ (pc \in {"links", "braces", "done"} /\ LinkFree(text)) =>
           errors \cap TagCodes = MainPass(text, 0, 0)
    /\ (AtOrphan /\ LinkFree(text)) =>
           MainPass(text, 0, 0) =
               (errors \cup {ERROR_CODE_CLOSING_TAG_WITHOUT_OPENING})
                   \cup MainPass(Slice(text, i + 2, Len(text)), 0, 0)

C25_OrphanStep ==
    /\ errors \subseteq errors'
    /\ AtOrphan =>
           /\ ERROR_CODE_CLOSING_TAG_WITHOUT_OPENING \in errors'
           /\ tag_stack' = <<>>
           /\ i' = i + 2 /\ pc' = "main"

C25_ScanGoesOn == []C25_OrphanInv /\ [][C25_OrphanStep]_vars

\* an orphan closer, then a named tag with its closer: 02 and nothing else
C25_Witness ==
    /\ pc = "done"
    /\ Len(text) >= 6
    /\ Slice(text, 0, 2) = <<"#", "E">>
    /\ PairedShape(Slice(text, 2, Len(text)))
    /\ CharAt(text, 3) = "G"
    /\ errors = {ERROR_CODE_CLOSING_TAG_WITHOUT_OPENING}

\* the ids main lists
ListedIds == DOMAIN ru_errors \cup DOMAIN en_errors

(***************************************************************************)
(* C26: when the primary file exists, main exits with status 1 iff at      *)
(* least one id is classified PrimaryOnly, that is has codes in the        *)
(* primary file and none in the reference file; it exits with status 0     *)
(* when every listed id is Both or ReferenceOnly and when no id is listed. *)
(***************************************************************************)
C26_ExitStatus ==
    cmp_pc = "done" =>
        /\ exit_code \in {0, 1}
        /\ exit_code = 1 <=>
               \E id \in ListedIds : HasCodes(ru_errors, id) /\ ~HasCodes(en_errors, id)
        /\ exit_code = 1 <=> \E k \in 1..Len(labels) : labels[k][2] = PrimaryOnly
        /\ ListedIds = {} => exit_code = 0

\* both files read, an id with codes in both and one with codes in the reference
\* file only: status 0 although defects were listed
C26_Witness ==
    /\ cmp_pc = "done"
    /\ exit_code = 0
    /\ {labels[k][2] : k \in 1..Len(labels)} = {Both, ReferenceOnly}
    /\ Len(validated) > 0

(***************************************************************************)
(* C27: every key of the map validate_tags builds and returns has a        *)
(* non-empty set of codes, a record without defects adding no key; hence   *)
(* the last branch of the classification, which labels an id PrimaryOnly,  *)
(* is taken only for ids whose primary set is non-empty and whose          *)
(* reference set is empty.                                                 *)
(***************************************************************************)
C27_NoEmptyKey ==
    /\ \A id \in DOMAIN errors_by_id : errors_by_id[id] # {}
    /\ \A id \in DOMAIN ru_errors : ru_errors[id] # {}
    /\ \A id \in DOMAIN en_errors : en_errors[id] # {}
    /\ asm_pc = "done" =>
           DOMAIN errors_by_id = {scans[k].id : k \in {j \in 1..Len(scans) : scans[j].codes # {}}}
    /\ \A k \in 1..Len(labels) :
           labels[k][2] = PrimaryOnly =>
               /\ Get(ru_errors, labels[k][1]) # {}
               /\ Get(en_errors, labels[k][1]) = {}

\* the reference file holds a record without defects for an id that has codes in the
\* primary file: the id is no key of the second map and is labelled PrimaryOnly
C27_Witness ==
    /\ cmp_pc = "done"
    /\ \E k \in 1..Len(scans) : scans[k].codes = {} /\ scans[k].id \notin DOMAIN en_errors
                                   /\ scans[k].id \in DOMAIN ru_errors
                                   /\ <<scans[k].id, PrimaryOnly>> \in {labels[j] : j \in 1..Len(labels)}
    /\ en_errors # <<>>

(***************************************************************************)
(* C28: whenever UNBALANCED_BRACES is reported, so is                      *)
(* CLOSING_BRACE_WITHOUT_OPENING or OPENING_BRACE_WITHOUT_CLOSING.  The     *)
(* converse fails: the text of a closing brace followed by an opening one  *)
(* has equal counts, and both pairing codes and no 05 are reported for it. *)
(***************************************************************************)
C28_UnbalancedImpliesPairing ==
    /\ ERROR_CODE_UNBALANCED_BRACES \in errors =>
           \/ ERROR_CODE_CLOSING_BRACE_WITHOUT_OPENING \in errors
           \/ ERROR_CODE_OPENING_BRACE_WITHOUT_CLOSING \in errors
    /\ (pc = "done" /\ text = <<"}", "{">>) =>
           errors = {ERROR_CODE_CLOSING_BRACE_WITHOUT_OPENING,
                     ERROR_CODE_OPENING_BRACE_WITHOUT_CLOSING}

\* two braces opened, one closed: 05 with 07, without 06
C28_Witness ==
    /\ pc = "done"
    /\ Count(text, "{") = 2 /\ Count(text, "}") = 1
    /\ errors \cap BraceCodes =
         {ERROR_CODE_UNBALANCED_BRACES, ERROR_CODE_OPENING_BRACE_WITHOUT_CLOSING}

\* the first 16 characters of line n
IdOfLine(n) == SubSeq(LineOf(n), 1, IdLen)

(***************************************************************************)
(* C29: every record the assembler holds or flushes contains the           *)
(* separator, its start line having matched the record-start pattern: no   *)
(* flush ends in the branch of line 121 that drops the record, every flush *)
(* reaches the scan, and the id under which codes are recorded is the 16   *)
(* hex characters that begin the start line of the record.                 *)
(***************************************************************************)
C29_RecordHasSeparator ==
    asm_pc # "idle" =>
        /\ current_entry_lines # <<>> =>
               /\ Len(split_tab(rstrip_newlines(join(current_entry_lines)))) = 2
               /\ split_tab(rstrip_newlines(join(current_entry_lines)))[1] = current_id
               /\ current_id = IdOfLine(entry_start_line)
               /\ \A k \in 1..IdLen : current_id[k] \in HexDigits
        /\ Len(validated) = Len(scans) + (IF pc = "idle" THEN 0 ELSE 1)
        /\ \A k \in 1..Len(validated) : validated[k].id = IdOfLine(validated[k].start_line)
        /\ \A k \in 1..Len(scans) : scans[k].id = validated[k].id
        /\ DOMAIN errors_by_id \subseteq {IdOfLine(n) : n \in StartLines}
        /\ asm_pc = "done" => Len(scans) = Cardinality(StartLines)

\* two records flushed, one of them of several lines, codes recorded
C29_Witness ==
    /\ asm_pc = "done"
    /\ Len(scans) = 2
    /\ \E k \in 1..Len(validated) : Len(validated[k].line_nums) >= 2
    /\ DOMAIN errors_by_id # {}
    /\ \A id \in DOMAIN errors_by_id : \E n \in StartLines : id = IdOfLine(n)

\* the codes of the records scanned so far under the id
CodesOf(id) == UNION {scans[k].codes : k \in {j \in 1..Len(scans) : scans[j].id = id}}

(***************************************************************************)
(* C30: when the same id starts several records of a file, the set         *)
(* recorded for the id is the union of the codes of all those records; a   *)
(* later record never removes or replaces a code recorded before.          *)
(***************************************************************************)
C30_UnionInv ==
    /\ \A id \in DOMAIN errors_by_id : errors_by_id[id] = CodesOf(id)
    /\ \A k \in 1..Len(scans) :
           scans[k].codes # {} =>
               /\ scans[k].id \in DOMAIN errors_by_id
               /\ scans[k].codes \subseteq errors_by_id[scans[k].id]

C30_UnionStep ==
    \A id \in DOMAIN errors_by_id :
        id \in DOMAIN errors_by_id' /\ errors_by_id[id] \subseteq errors_by_id'[id]

C30_UnionOfRecords == [](asm_pc # "idle" => C30_UnionInv) /\ [][C30_UnionStep]_vars

\* two records under one id, the second with fewer codes than the first: the
\* codes of the first are kept
C30_Witness ==
    /\ asm_pc = "done"
    /\ Len(scans) = 2
    /\ scans[1].id = scans[2].id
    /\ scans[2].codes # {}
    /\ scans[2].codes # scans[1].codes
    /\ scans[2].codes \subseteq scans[1].codes
    /\ errors_by_id[scans[1].id] = scans[1].codes

\* line n comes before the first record start
BeforeFirstStart(n) == \A m \in 2..n : ~StartsRecord(m)

(***************************************************************************)
(* C31: a non-blank line that is no record start and is met while no       *)
(* record is open, that is between the header and the first record start,  *)
(* is ignored by validate_tags: the step only moves to the next line, the  *)
(* line is appended to no record, opens none, and no code comes from it.   *)
(***************************************************************************)
C31_OrphanInv ==
    /\ \A n \in LineNums : BeforeFirstStart(n) =>
           /\ \A k \in 1..Len(entry_line_nums) : entry_line_nums[k] # n
           /\ \A k \in 1..Len(validated) :
                  \A j \in 1..Len(validated[k].line_nums) : validated[k].line_nums[j] # n
    /\ current_entry_lines = <<>> =>
           /\ entry_start_line = 0 /\ current_id = <<>>
           /\ validated = <<>> /\ scans = <<>> /\ errors_by_id = <<>>
           /\ \A n \in 2..(line_num - 1) : BeforeFirstStart(n)
    /\ current_entry_lines # <<>> => ~BeforeFirstStart(line_num - 1)

C31_OrphanStep ==
    (/\ asm_pc = "loop" /\ line_num <= Len(lines)
     /\ ~BlankLine(line_num) /\ ~StartsRecord(line_num)
     /\ current_entry_lines = <<>>) =>
        /\ line_num' = line_num + 1
        /\ UNCHANGED <<scan_vars, lines, current_entry_lines, entry_line_nums,
                       entry_start_line, current_id, errors_by_id, validated, scans, asm_pc>>

C31_OrphanIgnored == [](asm_pc \in {"loop", "done"} => C31_OrphanInv) /\ [][C31_OrphanStep]_vars

\* a closing brace on the line after the header, then one record without defects:
\* the brace is in no record and no code is recorded
C31_Witness ==
    /\ asm_pc = "done"
    /\ Len(lines) = 3
    /\ LineOf(2) = <<"}">>
    /\ StartLines = {3}
    /\ Len(validated) = 1
    /\ validated[1].line_nums = <<3>>
    /\ errors_by_id = <<>>

\* the records of a history of calls: start line and lines of each
RecordsOf(v) == [k \in 1..Len(v) |-> <<v[k].start_line, v[k].line_nums>>]

\* line n is blank and validate_tsv meets it with the record of line s open
BlankInRecord(s, n) ==
    /\ s < n /\ n <= Len(lines)
    /\ StartsRecord(s) /\ BlankLine(n)
    /\ \A m \in (s + 1)..(n - 1) : ~StartsRecord(m) /\ ~BlankLine(m)

(***************************************************************************)
(* C32: for every file validate_tsv accepts, validate_tsv and              *)
(* validate_tags split the lines into the same sequence of records, start  *)
(* line and continuation lines alike.  The two splits differ only on files *)
(* with a blank line met while a record is open: validate_tsv reports the  *)
(* line and closes the record without validating it, validate_tags keeps   *)
(* the record open and validates it.                                       *)
(***************************************************************************)
C32_SameRecords ==
    (tsv_pc = "done" /\ asm_pc = "done") =>
        /\ is_valid => RecordsOf(tsv_validated) = RecordsOf(validated)
        /\ RecordsOf(tsv_validated) # RecordsOf(validated) =>
               \E s, n \in LineNums : BlankInRecord(s, n)
        /\ \A s, n \in LineNums : BlankInRecord(s, n) =>
               /\ \E e \in 1..Len(tsv_errors) : tsv_errors[e] = <<"blank_inside", n>>
               /\ \A k \in 1..Len(tsv_validated) : tsv_validated[k].start_line # s
               /\ \E k \in 1..Len(validated) :
                      /\ validated[k].start_line = s
                      /\ validated[k].line_nums =
                             <<s>> \o SelectSeq([j \in 1..(Len(lines) - s) |-> s + j],
                                                LAMBDA m : m \in RecordLines(s))

\* a file validate_tsv accepts, of two records, the first of two lines
C32_Witness ==
    /\ tsv_pc = "done" /\ asm_pc = "done"
    /\ is_valid
    /\ Len(validated) = 2
    /\ Len(validated[1].line_nums) = 2
    /\ RecordsOf(tsv_validated) = RecordsOf(validated)

(***************************************************************************)
(* C33: skip_and_next never causes the skipped row to be saved: after any  *)
(* sequence of edits, saves and skips, the row that was current when       *)
(* skip_and_next ran is not among the rows the save started by that skip   *)
(* writes to the final file.                                               *)
(***************************************************************************)
C33_SkippedRowNotSaved ==
    \A k \in 1..Len(saves) : saves[k].by = "skip" => saves[k].row \notin saves[k].written

(***************************************************************************)
(* C34: when the finish step of the load has run (_on_final_loaded has     *)
(* announced that all data are loaded), the ENG load, the RUS load and the *)
(* dictionary load have completed and their results are installed.         *)
(***************************************************************************)
C34_AllLoadedAtFinish ==
    announced =>
        /\ eng_file_loaded /\ Len(df) = Len(EngFile)
        /\ rus_file_loaded
        /\ \A k \in 1..Len(df) :
               df[k].RUS_MACHINE = IF df[k].ID \in DOMAIN RusFile THEN RusFile[df[k].ID] ELSE <<>>
        /\ \A t \in pool : t.kind # "dict"
        /\ \A k \in 1..Len(events) : events[k].kind # "dict"
        /\ dict_df = DictFile

\* no filter task is on the pool and no result of one waits for the GUI thread
FiltersFinished ==
    /\ \A t \in pool : t.kind # "filter"
    /\ \A k \in 1..Len(events) : events[k].kind # "filter"

(***************************************************************************)
(* C35: after any sequence of search-text changes, once every filter task  *)
(* has finished and its result is delivered, filtered_indices and the list *)
(* model hold the result of filtering by the search text entered last, in  *)
(* whatever order the pool completed the tasks.                            *)
(***************************************************************************)
C35_LatestSearchWins ==
    (searches # <<>> /\ FiltersFinished) =>
        /\ filtered_indices = _filter_task(searches[Len(searches)])
        /\ model_indices = filtered_indices

====
